---- MODULE Spec2Model ----
(***************************************************************************)
(* A model of the introspection SDK's span pipeline:                       *)
(*   - the OpenInference -> GenAI attribute converter                      *)
(*     (introspection_sdk/converters/openinference.py),                    *)
(*   - IntrospectionSpanProcessor (introspection_sdk/span_processor.py),   *)
(*   - IntrospectionTracingProcessor, the trace bridge                     *)
(*     (introspection_sdk/tracing_processor.py).                           *)
(***************************************************************************)
EXTENDS Integers, Sequences, FiniteSets, TLC

VARIABLES
    attrs,      \* converter: the span's attribute map, a list of (key, value) in insertion order
    result,     \* converter: what the last extraction returned or raised
    environ,    \* os.environ: INTROSPECTION_TOKEN, INTROSPECTION_BASE_URL
    processor,  \* IntrospectionSpanProcessor: construction outcome and arguments
    lifecycle,  \* the host SDK's spans: state, sampled flag, scope, attributes
    downstream, \* calls received by self._span_processor, in order
    outcome,    \* how the last pipeline handler ended
    bridge,     \* IntrospectionTracingProcessor: construction outcome and arguments
    spans,      \* IntrospectionTracingProcessor._spans
    handles,    \* the otel spans the bridge's tracer created
    exported,   \* the otel spans ended by the bridge, in order
    started,    \* bridge: ids whose start callback came and whose end did not yet
    lastcb,     \* bridge: what the last callback did
    pc          \* threads calling the bridge: each one's position in its callback

vars == <<attrs, result, environ, processor, lifecycle, downstream, outcome,
          bridge, spans, handles, exported, started, lastcb, pc>>

convVars == <<attrs, result>>
pipeVars == <<environ, processor, lifecycle, downstream, outcome>>
bridgeVars == <<bridge, spans, handles, exported, started, lastcb>>

(***************************************************************************)
(* Python values.  Every value is a record tagged by k; a dict is a        *)
(* function from its keys, a list a sequence.                              *)
(***************************************************************************)
None == [k |-> "none"]
PyStr(s) == [k |-> "str", s |-> s]
PyInt(n) == [k |-> "int", n |-> n]
PyFloat(whole, frac) == [k |-> "float", n |-> whole, frac |-> frac]
PyList(items) == [k |-> "list", items |-> items]
PyDict(f) == [k |-> "dict", f |-> f]
EmptyDict == PyDict(<<>>)

IsStr(v) == v.k = "str"
IsDict(v) == v.k = "dict"
IsList(v) == v.k = "list"

\* bool(v)
Truthy(v) ==
    CASE v.k = "none" -> FALSE
      [] v.k = "str" -> v.s # ""
      [] v.k = "int" -> v.n # 0
      [] v.k = "float" -> v.n # 0 \/ v.frac # 0
      [] v.k = "list" -> Len(v.items) > 0
      [] v.k = "dict" -> DOMAIN v.f # {}
      [] v.k = "bool" -> v.b
      [] OTHER -> TRUE

\* d.get(key) and d.get(key, default) of a dict value
Get(d, key) == IF key \in DOMAIN d.f THEN d.f[key] ELSE None
GetOr(d, key, default) == IF key \in DOMAIN d.f THEN d.f[key] ELSE default

\* A call either returns a value or raises.
Ok(v) == [exc |-> "none", val |-> v]
Raise(e) == [exc |-> e, val |-> None]
Raised(r) == r.exc # "none"

(***************************************************************************)
(* json.loads on the strings the model uses.  ok = FALSE is                *)
(* json.JSONDecodeError.                                                   *)
(***************************************************************************)
JsonOk(v) == [ok |-> TRUE, val |-> v]
JsonDecodeError == [ok |-> FALSE, val |-> None]

LangchainItem(id) ==
    PyDict("message" :> PyDict("kwargs" :> PyDict("response_metadata" :> PyDict("id" :> id))))

JsonLoads(s) ==
    CASE s = "null" -> JsonOk(None)
      [] s = "5" -> JsonOk(PyInt(5))
      [] s = "[1]" -> JsonOk(PyList(<<PyInt(1)>>))
      [] s = "\"txt\"" -> JsonOk(PyStr("txt"))
      [] s = "{}" -> JsonOk(EmptyDict)
      [] s = "{\"ok\":true}" -> JsonOk(PyDict("ok" :> [k |-> "bool", b |-> TRUE]))
      [] s = "{\"instructions\":\"Be helpful\"}" ->
            JsonOk(PyDict("instructions" :> PyStr("Be helpful")))
      [] s = "{\"instructions\":\"\"}" -> JsonOk(PyDict("instructions" :> PyStr("")))
      [] s = "{\"instructions\":5}" -> JsonOk(PyDict("instructions" :> PyInt(5)))
      [] s = "{\"id\":\"resp_1\"}" -> JsonOk(PyDict("id" :> PyStr("resp_1")))
      [] s = "{\"id\":\"\"}" -> JsonOk(PyDict("id" :> PyStr("")))
      [] s = "{\"id\":7}" -> JsonOk(PyDict("id" :> PyInt(7)))
      [] s = "{\"generations\":[[{},{\"message\":{\"kwargs\":{\"response_metadata\":{\"id\":\"lc_1\"}}}}],[{\"message\":{\"kwargs\":{\"response_metadata\":{\"id\":\"lc_2\"}}}}]]}" ->
            JsonOk(PyDict("generations" :> PyList(<<
                PyList(<<EmptyDict, LangchainItem(PyStr("lc_1"))>>),
                PyList(<<LangchainItem(PyStr("lc_2"))>>)>>)))
      [] s = "{\"generations\":[{\"message\":{\"kwargs\":{\"response_metadata\":{\"id\":\"lc_3\"}}}}]}" ->
            JsonOk(PyDict("generations" :> PyList(<<LangchainItem(PyStr("lc_3"))>>)))
      [] s = "{\"generations\":5}" -> JsonOk(PyDict("generations" :> PyInt(5)))
      [] s = "{\"id\":\"resp_2\",\"generations\":[{\"message\":{\"kwargs\":{\"response_metadata\":{\"id\":\"lc_3\"}}}}]}" ->
            JsonOk(PyDict("id" :> PyStr("resp_2") @@
                          "generations" :> PyList(<<LangchainItem(PyStr("lc_3"))>>)))
      [] s = "{\"generations\":[[5,{\"message\":{\"kwargs\":{\"response_metadata\":{\"id\":\"\"}}}}],{\"message\":{\"kwargs\":{\"response_metadata\":{\"id\":\"lc_4\"}}}}]}" ->
            JsonOk(PyDict("generations" :> PyList(<<
                PyList(<<PyInt(5), LangchainItem(PyStr(""))>>),
                LangchainItem(PyStr("lc_4"))>>)))
      [] s = "{\"type\":\"function\",\"function\":{\"name\":\"f\",\"description\":\"d\",\"parameters\":{}}}" ->
            JsonOk(PyDict("type" :> PyStr("function") @@
                        "function" :> PyDict("name" :> PyStr("f") @@ "description" :> PyStr("d")
                                           @@ "parameters" :> EmptyDict)))
      [] s = "{\"name\":\"g\",\"description\":\"e\"}" ->
            JsonOk(PyDict("name" :> PyStr("g") @@ "description" :> PyStr("e")))
      [] s = "{\"type\":\"function\",\"function\":\"h\"}" ->
            JsonOk(PyDict("type" :> PyStr("function") @@ "function" :> PyStr("h")))
      [] OTHER -> JsonDecodeError

(***************************************************************************)
(* Attribute keys.  A key is the list of its dot-separated segments and a  *)
(* segment is a list of tokens: a name is one token, a digit group is one  *)
(* token per digit, so that "0" and "00" are different keys with the same  *)
(* index.                                                                  *)
(***************************************************************************)
Digits == {"0", "1", "2", "3", "4", "5", "6", "7", "8", "9"}

DigitValue(c) ==
    CASE c = "0" -> 0 [] c = "1" -> 1 [] c = "2" -> 2 [] c = "3" -> 3 [] c = "4" -> 4
      [] c = "5" -> 5 [] c = "6" -> 6 [] c = "7" -> 7 [] c = "8" -> 8 [] c = "9" -> 9

\* the regex group (\d+)
IsDigits(seg) == Len(seg) >= 1 /\ \A i \in 1..Len(seg) : seg[i] \in Digits

\* int(match.group(1))
RECURSIVE ParseInt(_)
ParseInt(seg) ==
    IF Len(seg) = 0 THEN 0
    ELSE 10 * ParseInt(SubSeq(seg, 1, Len(seg) - 1)) + DigitValue(seg[Len(seg)])

Name(s) == <<s>>
Tail2(key, n) == SubSeq(key, n + 1, Len(key))
StartsWithSeq(s, p) == Len(s) >= Len(p) /\ SubSeq(s, 1, Len(p)) = p

LLM_INPUT_MESSAGES == <<Name("llm"), Name("input_messages")>>
LLM_OUTPUT_MESSAGES == <<Name("llm"), Name("output_messages")>>
LLM_TOOLS == <<Name("llm"), Name("tools")>>
TOOL_JSON_SCHEMA == <<Name("tool"), Name("json_schema")>>
LLM_MODEL_NAME == <<Name("llm"), Name("model_name")>>
LLM_SYSTEM == <<Name("llm"), Name("system")>>
LLM_TOKEN_COUNT_PROMPT == <<Name("llm"), Name("token_count"), Name("prompt")>>
LLM_TOKEN_COUNT_COMPLETION == <<Name("llm"), Name("token_count"), Name("completion")>>
INPUT_VALUE == <<Name("input"), Name("value")>>
OUTPUT_VALUE == <<Name("output"), Name("value")>>
GEN_AI_RESPONSE_ID == <<Name("gen_ai"), Name("response"), Name("id")>>

\* A span's attributes: None, or a mapping given by its (key, value) items in
\* iteration order, no key twice.
Attributes(items) == [k |-> "attrs", items |-> items]

\* key in attrs, attrs.get(key)
HasKey(a, key) == \E i \in 1..Len(a.items) : a.items[i].key = key
AttrGet(a, key) ==
    IF HasKey(a, key)
    THEN a.items[CHOOSE i \in 1..Len(a.items) : a.items[i].key = key].value
    ELSE None

\* sorted(s) for a set of integers
RECURSIVE Sorted(_)
Sorted(S) ==
    IF S = {} THEN <<>>
    ELSE LET m == CHOOSE x \in S : \A y \in S : x <= y
         IN <<m>> \o Sorted(S \ {m})

SetItem(d, key, v) == (key :> v) @@ d
DelItem(d, key) == [x \in DOMAIN d \ {key} |-> d[x]]

(***************************************************************************)
(* _extract_messages(attrs, prefix)                                        *)
(***************************************************************************)
\* base_pattern.match(key): {prefix}\.(\d+)\.message\.(.+)
MatchesBase(key, prefix) ==
    /\ Len(key) >= Len(prefix) + 3
    /\ StartsWithSeq(key, prefix)
    /\ IsDigits(key[Len(prefix) + 1])
    /\ key[Len(prefix) + 2] = Name("message")

\* re.match(r"tool_calls\.(\d+)\.tool_call\.(.+)", rest)
MatchesToolCall(rest) ==
    /\ Len(rest) >= 4
    /\ rest[1] = Name("tool_calls")
    /\ IsDigits(rest[2])
    /\ rest[3] = Name("tool_call")

\* re.match(r"contents\.(\d+)\.message_content\.(.+)", rest)
MatchesContents(rest) ==
    /\ Len(rest) >= 4
    /\ rest[1] = Name("contents")
    /\ IsDigits(rest[2])
    /\ rest[3] = Name("message_content")

NewMessage == ("parts" :> <<>>) @@ ("_tool_calls" :> <<>>) @@ ("_contents" :> <<>>)

\* the entry of an index in msg["_tool_calls"] or msg["_contents"], created when missing
Entry(d, idx) == IF idx \in DOMAIN d THEN d[idx] ELSE <<>>

SetToolCallField(tcs, rest, value) ==
    LET tc_idx == ParseInt(rest[2])
        tc_attr == Tail2(rest, 3)
        tc == Entry(tcs, tc_idx)
    IN  IF tc_attr = <<Name("id")>> THEN SetItem(tcs, tc_idx, SetItem(tc, "id", value))
        ELSE IF tc_attr = <<Name("function"), Name("name")>>
             THEN SetItem(tcs, tc_idx, SetItem(tc, "name", value))
        ELSE IF tc_attr = <<Name("function"), Name("arguments")>>
             THEN SetItem(tcs, tc_idx, SetItem(tc, "arguments", value))
        ELSE SetItem(tcs, tc_idx, tc)

SetContentsField(cs, rest, value) ==
    LET c_idx == ParseInt(rest[2])
        c_attr == Tail2(rest, 3)
        c == Entry(cs, c_idx)
    IN  IF c_attr = <<Name("type")>> THEN SetItem(cs, c_idx, SetItem(c, "type", value))
        ELSE IF c_attr = <<Name("text")>> THEN SetItem(cs, c_idx, SetItem(c, "text", value))
        ELSE SetItem(cs, c_idx, c)

\* the if/elif chain on `rest` in the first loop
SetMessageField(msg, rest, value) ==
    IF rest = <<Name("role")>> THEN SetItem(msg, "role", value)
    ELSE IF rest = <<Name("content")>> THEN
        IF Truthy(value)
        THEN SetItem(SetItem(msg, "_has_content", TRUE), "_content_text", value)
        ELSE msg
    ELSE IF rest = <<Name("tool_call_id")>> THEN SetItem(msg, "_tool_call_id", value)
    ELSE IF Len(rest) >= 2 /\ rest[1] = Name("tool_calls") THEN
        IF MatchesToolCall(rest)
        THEN SetItem(msg, "_tool_calls", SetToolCallField(msg["_tool_calls"], rest, value))
        ELSE msg
    ELSE IF Len(rest) >= 2 /\ rest[1] = Name("contents") THEN
        IF MatchesContents(rest)
        THEN SetItem(msg, "_contents", SetContentsField(msg["_contents"], rest, value))
        ELSE msg
    ELSE msg

\* the first loop: for key, value in attrs.items()
RECURSIVE GroupMessages(_, _, _)
GroupMessages(a, prefix, n) ==
    IF n = 0 THEN <<>>
    ELSE LET messages == GroupMessages(a, prefix, n - 1)
             key == a[n].key
         IN  IF ~MatchesBase(key, prefix) THEN messages
             ELSE LET msg_idx == ParseInt(key[Len(prefix) + 1])
                      rest == Tail2(key, Len(prefix) + 2)
                      msg == IF msg_idx \in DOMAIN messages THEN messages[msg_idx]
                             ELSE NewMessage
                  IN  SetItem(messages, msg_idx, SetMessageField(msg, rest, a[n].value))

\* sorted(messages.keys()): the order in which the second loop emits the messages
MessageOrder(messages) == Sorted(DOMAIN messages)

\* the tool-response branch: one tool_call_response part, or TypeError from json.loads
ToolResponseParts(msg) ==
    LET content == IF "_content_text" \in DOMAIN msg THEN msg["_content_text"] ELSE PyStr("")
    IN  IF ~Truthy(content)
        THEN Ok(<<[type |-> "tool_call_response", id |-> msg["_tool_call_id"],
                   response |-> None]>>)
        ELSE IF ~IsStr(content) THEN Raise("TypeError")
        ELSE LET parsed == JsonLoads(content.s)
             IN  Ok(<<[type |-> "tool_call_response", id |-> msg["_tool_call_id"],
                       response |-> IF parsed.ok THEN parsed.val ELSE content]>>)

\* one text part per contents entry whose type is "text", in ascending index
RECURSIVE ContentsParts(_, _)
ContentsParts(cs, order) ==
    IF order = <<>> THEN <<>>
    ELSE LET c == cs[Head(order)]
             here == IF "type" \in DOMAIN c /\ c["type"] = PyStr("text")
                     THEN <<[type |-> "text",
                             content |-> IF "text" \in DOMAIN c THEN c["text"] ELSE PyStr("")]>>
                     ELSE <<>>
         IN  here \o ContentsParts(cs, Tail(order))

\* a flat content that is appended whatever the contents entries gave
SimpleContentAlways(msg, parts) ==
    IF /\ "_has_content" \in DOMAIN msg
       /\ "_content_text" \in DOMAIN msg
       /\ Truthy(msg["_content_text"])
    THEN <<[type |-> "text", content |-> msg["_content_text"]]>>
    ELSE <<>>

\* the flat content, only when no text part was produced yet
SimpleContentParts(msg, parts) ==
    IF /\ "_has_content" \in DOMAIN msg
       /\ "_content_text" \in DOMAIN msg
       /\ Truthy(msg["_content_text"])
       /\ ~\E i \in 1..Len(parts) : parts[i].type = "text"
    THEN <<[type |-> "text", content |-> msg["_content_text"]]>>
    ELSE <<>>

\* one tool_call part per tool call, in ascending index
RECURSIVE ToolCallParts(_, _)
ToolCallParts(tcs, order) ==
    IF order = <<>> THEN <<>>
    ELSE LET tc == tcs[Head(order)]
             F(name) == IF name \in DOMAIN tc THEN tc[name] ELSE None
         IN  <<[type |-> "tool_call", id |-> F("id"), name |-> F("name"),
                arguments |-> F("arguments")]>> \o ToolCallParts(tcs, Tail(order))

MessageRole(msg) == IF "role" \in DOMAIN msg THEN msg["role"] ELSE PyStr("assistant")

\* the test that selects the tool-response branch
IsToolResponse(msg) == MessageRole(msg) = PyStr("tool") /\ "_tool_call_id" \in DOMAIN msg

\* the body of the second loop: the parts of one message
MessageParts(msg) ==
    IF IsToolResponse(msg) THEN ToolResponseParts(msg)
    ELSE LET fromContents == ContentsParts(msg["_contents"], Sorted(DOMAIN msg["_contents"]))
             withSimple == fromContents \o SimpleContentParts(msg, fromContents)
         IN  Ok(withSimple
                \o ToolCallParts(msg["_tool_calls"], Sorted(DOMAIN msg["_tool_calls"])))

\* the second loop: for idx in sorted(messages.keys())
RECURSIVE BuildMessages(_, _)
BuildMessages(messages, order) ==
    IF order = <<>> THEN Ok(<<>>)
    ELSE LET msg == messages[Head(order)]
             parts == MessageParts(msg)
         IN  IF Raised(parts) THEN parts
             ELSE LET rest == BuildMessages(messages, Tail(order))
                  IN  IF Raised(rest) THEN rest
                      ELSE Ok(<<[role |-> MessageRole(msg), parts |-> parts.val]>> \o rest.val)

extract_messages(a, prefix) ==
    IF a = None THEN Ok(<<>>)
    ELSE LET messages == GroupMessages(a.items, prefix, Len(a.items))
         IN  BuildMessages(messages, MessageOrder(messages))

(***************************************************************************)
(* The single-key extractors                                               *)
(***************************************************************************)
extract_model_name(a) ==
    IF a = None THEN None
    ELSE LET value == AttrGet(a, LLM_MODEL_NAME) IN IF IsStr(value) THEN value ELSE None

extract_system(a) ==
    IF a = None THEN None
    ELSE LET value == AttrGet(a, LLM_SYSTEM) IN IF IsStr(value) THEN value ELSE None

\* the usage dict: a key is present exactly when the attribute is
extract_token_usage(a) ==
    IF a = None THEN <<>>
    ELSE (IF HasKey(a, LLM_TOKEN_COUNT_PROMPT)
          THEN "gen_ai.usage.input_tokens" :> AttrGet(a, LLM_TOKEN_COUNT_PROMPT) ELSE <<>>)
         @@
         (IF HasKey(a, LLM_TOKEN_COUNT_COMPLETION)
          THEN "gen_ai.usage.output_tokens" :> AttrGet(a, LLM_TOKEN_COUNT_COMPLETION) ELSE <<>>)

\* extract_from_item: message.kwargs.response_metadata.id, a non-empty string or None
ExtractFromItem(item) ==
    IF ~IsDict(item) THEN None
    ELSE LET message == Get(item, "message") IN
    IF ~IsDict(message) THEN None
    ELSE LET kwargs == Get(message, "kwargs") IN
    IF ~IsDict(kwargs) THEN None
    ELSE LET response_metadata == Get(kwargs, "response_metadata") IN
    IF ~IsDict(response_metadata) THEN None
    ELSE LET response_id == Get(response_metadata, "id") IN
    IF IsStr(response_id) /\ response_id.s # "" THEN response_id ELSE None

\* the first hit among the items of a list, None when there is none
RECURSIVE FirstFromItems(_)
FirstFromItems(items) ==
    IF items = <<>> THEN None
    ELSE LET r == ExtractFromItem(Head(items))
         IN  IF r # None THEN r ELSE FirstFromItems(Tail(items))

\* for outer in generations
RECURSIVE FirstFromGenerations(_)
FirstFromGenerations(gens) ==
    IF gens = <<>> THEN None
    ELSE LET outer == Head(gens)
             r == IF IsList(outer) THEN FirstFromItems(outer.items)
                  ELSE ExtractFromItem(outer)
         IN  IF r # None THEN r ELSE FirstFromGenerations(Tail(gens))

extract_response_id_from_langchain_output(payload) ==
    LET generations == Get(payload, "generations")
    IN  IF ~IsList(generations) THEN None ELSE FirstFromGenerations(generations.items)

\* a resolution that reads output.value before the canonical key
ResponseIdFromOutputFirst(a) ==
    IF a = None THEN None
    ELSE LET existing == AttrGet(a, GEN_AI_RESPONSE_ID)
             output_value == AttrGet(a, OUTPUT_VALUE)
             parsed == IF IsStr(output_value) THEN JsonLoads(output_value.s)
                       ELSE JsonDecodeError
             response_id == IF parsed.ok /\ IsDict(parsed.val) THEN Get(parsed.val, "id")
                            ELSE None
         IN  IF IsStr(response_id) /\ response_id.s # "" THEN response_id
             ELSE IF IsStr(existing) /\ existing.s # "" THEN existing
             ELSE IF parsed.ok /\ IsDict(parsed.val)
                  THEN extract_response_id_from_langchain_output(parsed.val)
             ELSE None

extract_response_id(a) ==
    IF a = None THEN None
    ELSE LET existing == AttrGet(a, GEN_AI_RESPONSE_ID) IN
    IF IsStr(existing) /\ existing.s # "" THEN existing
    ELSE LET output_value == AttrGet(a, OUTPUT_VALUE) IN
    IF ~IsStr(output_value) \/ output_value.s = "" THEN None
    ELSE LET parsed == JsonLoads(output_value.s) IN
    IF ~parsed.ok THEN None
    ELSE IF ~IsDict(parsed.val) THEN None
    ELSE LET response_id == Get(parsed.val, "id") IN
    IF IsStr(response_id) /\ response_id.s # "" THEN response_id
    ELSE extract_response_id_from_langchain_output(parsed.val)

(***************************************************************************)
(* extract_tool_definitions                                                *)
(***************************************************************************)
DigitChar(d) ==
    CASE d = 0 -> "0" [] d = 1 -> "1" [] d = 2 -> "2" [] d = 3 -> "3" [] d = 4 -> "4"
      [] d = 5 -> "5" [] d = 6 -> "6" [] d = 7 -> "7" [] d = 8 -> "8" [] d = 9 -> "9"

\* f"{idx}"
RECURSIVE FormatInt(_)
FormatInt(n) ==
    IF n < 10 THEN <<DigitChar(n)>> ELSE FormatInt(n \div 10) \o <<DigitChar(n % 10)>>

\* tool_pattern.match(key): llm.tools\.(\d+)\.tool.json_schema, anchored at the start only
MatchesTool(key) ==
    /\ Len(key) >= Len(LLM_TOOLS) + 1 + Len(TOOL_JSON_SCHEMA)
    /\ StartsWithSeq(key, LLM_TOOLS)
    /\ IsDigits(key[Len(LLM_TOOLS) + 1])
    /\ StartsWithSeq(Tail2(key, Len(LLM_TOOLS) + 1), TOOL_JSON_SCHEMA)

ToolIndices(a) ==
    {ParseInt(a.items[i].key[Len(LLM_TOOLS) + 1]) :
        i \in {j \in 1..Len(a.items) : MatchesTool(a.items[j].key)}}

JsonSchemaKey(idx) == LLM_TOOLS \o <<FormatInt(idx)>> \o TOOL_JSON_SCHEMA

\* the body of the loop for one index: the tool_def appended (a list of zero or one
\* definition), or AttributeError from schema.get on a value that is no dict
ToolDefinition(a, idx) ==
    IF ~HasKey(a, JsonSchemaKey(idx)) THEN Ok(<<>>)
    ELSE LET schema_value == AttrGet(a, JsonSchemaKey(idx)) IN
    IF ~IsStr(schema_value) THEN Ok(<<>>)
    ELSE LET parsed == JsonLoads(schema_value.s) IN
    IF ~parsed.ok THEN Ok(<<>>)
    ELSE IF parsed.val = None THEN Ok(<<>>)
    ELSE IF ~IsDict(parsed.val) THEN Raise("AttributeError")
    ELSE LET fn == Get(parsed.val, "function")
             schema == IF Get(parsed.val, "type") = PyStr("function") /\ IsDict(fn)
                       THEN PyDict(("type" :> PyStr("function")) @@ ("name" :> Get(fn, "name"))
                                   @@ ("description" :> Get(fn, "description"))
                                   @@ ("parameters" :> Get(fn, "parameters")))
                       ELSE parsed.val
         IN  Ok(<<[type |-> GetOr(schema, "type", PyStr("function")),
                   name |-> Get(schema, "name"),
                   description |-> Get(schema, "description"),
                   parameters |-> Get(schema, "parameters")]>>)

RECURSIVE ToolDefinitions(_, _)
ToolDefinitions(a, order) ==
    IF order = <<>> THEN Ok(<<>>)
    ELSE LET here == ToolDefinition(a, Head(order))
         IN  IF Raised(here) THEN here
             ELSE LET rest == ToolDefinitions(a, Tail(order))
                  IN  IF Raised(rest) THEN rest ELSE Ok(here.val \o rest.val)

extract_tool_definitions(a) ==
    IF a = None THEN Ok(<<>>) ELSE ToolDefinitions(a, Sorted(ToolIndices(a)))

(***************************************************************************)
(* extract_system_instructions, extract_input_messages,                    *)
(* extract_output_messages                                                 *)
(***************************************************************************)
FirstMsgRoleKey == LLM_INPUT_MESSAGES \o <<<<"0">>, Name("message"), Name("role")>>

\* parsed.get("instructions") raises AttributeError when parsed is no dict
extract_system_instructions(a) ==
    IF a = None THEN Ok(<<>>)
    ELSE IF AttrGet(a, FirstMsgRoleKey) = PyStr("system") THEN Ok(<<>>)
    ELSE LET input_value == AttrGet(a, INPUT_VALUE) IN
    IF ~(IsStr(input_value) /\ input_value.s # "") THEN Ok(<<>>)
    ELSE LET parsed == JsonLoads(input_value.s) IN
    IF ~parsed.ok THEN Ok(<<>>)
    ELSE IF ~IsDict(parsed.val) THEN Raise("AttributeError")
    ELSE LET instructions == Get(parsed.val, "instructions")
         IN  IF Truthy(instructions)
             THEN Ok(<<[type |-> "text", content |-> instructions]>>)
             ELSE Ok(<<>>)

\* (input_messages, system_instructions); the instructions are extracted first
extract_input_messages(a) ==
    LET system_instructions == extract_system_instructions(a)
    IN  IF Raised(system_instructions) THEN system_instructions
        ELSE LET input_messages == extract_messages(a, LLM_INPUT_MESSAGES)
             IN  IF Raised(input_messages) THEN input_messages
                 ELSE Ok([input_messages |-> input_messages.val,
                          system_instructions |-> system_instructions.val])

\* the loop left out: the messages as _extract_messages built them
KeepMessages(messages) == messages

\* msg["finish_reason"] = None for every message
AddFinishReason(messages) ==
    [i \in 1..Len(messages) |->
        [role |-> messages[i].role, parts |-> messages[i].parts, finish_reason |-> None]]

extract_output_messages(a) ==
    LET messages == extract_messages(a, LLM_OUTPUT_MESSAGES)
    IN  IF Raised(messages) THEN messages ELSE Ok(AddFinishReason(messages.val))

(***************************************************************************)
(* GenAiAttributes (types.py) and convert_openinference_to_genai           *)
(***************************************************************************)
\* json.dumps(v): a string, kept with the value it encodes
JsonDumps(v) == [k |-> "jsonstr", v |-> v]

\* int(s) of the strings the model uses; ok = FALSE when s is no integer literal
StrToInt(s) ==
    CASE s = "12" -> [ok |-> TRUE, n |-> 12]
      [] OTHER -> [ok |-> FALSE, n |-> 0]

\* pydantic's validation of a field declared int | None (lax mode): an int or None
\* is kept, a numeric string, a float without fraction or a bool is coerced, anything
\* else is a ValidationError
ValidateOptionalInt(v) ==
    CASE v.k = "none" -> Ok(v)
      [] v.k = "int" -> Ok(v)
      [] v.k = "str" -> IF StrToInt(v.s).ok THEN Ok(PyInt(StrToInt(v.s).n))
                        ELSE Raise("ValidationError")
      [] v.k = "float" -> IF v.frac = 0 THEN Ok(PyInt(v.n)) ELSE Raise("ValidationError")
      [] v.k = "bool" -> Ok(PyInt(IF v.b THEN 1 ELSE 0))
      [] OTHER -> Raise("ValidationError")

\* pydantic's validation of a field declared str | None: a str or None is kept, no
\* other value is coerced
ValidateOptionalStr(v) ==
    IF v.k \in {"none", "str", "jsonstr"} THEN Ok(v) ELSE Raise("ValidationError")

StrFields == {"request_model", "system", "tool_definitions", "input_messages",
              "output_messages", "system_instructions", "response_id"}

\* GenAiAttributes(**fields): the model's fields, or pydantic's ValidationError
GenAiAttributes(f) ==
    LET input_tokens == ValidateOptionalInt(f.input_tokens)
        output_tokens == ValidateOptionalInt(f.output_tokens)
    IN  IF \E field \in StrFields : Raised(ValidateOptionalStr(f[field]))
        THEN Raise("ValidationError")
        ELSE IF Raised(input_tokens) THEN input_tokens
        ELSE IF Raised(output_tokens) THEN output_tokens
        ELSE Ok([f EXCEPT !.input_tokens = input_tokens.val,
                          !.output_tokens = output_tokens.val])

FieldNames == {"request_model", "system", "tool_definitions", "input_messages",
               "output_messages", "system_instructions", "response_id",
               "input_tokens", "output_tokens"}

\* Field(alias=...)
Alias(field) ==
    CASE field = "request_model" -> "gen_ai.request.model"
      [] field = "system" -> "gen_ai.system"
      [] field = "tool_definitions" -> "gen_ai.tool.definitions"
      [] field = "input_messages" -> "gen_ai.input.messages"
      [] field = "output_messages" -> "gen_ai.output.messages"
      [] field = "system_instructions" -> "gen_ai.system_instructions"
      [] field = "response_id" -> "gen_ai.response.id"
      [] field = "input_tokens" -> "gen_ai.usage.input_tokens"
      [] field = "output_tokens" -> "gen_ai.usage.output_tokens"

\* GenAiAttributes.to_attributes: alias -> value for the fields that are not None
to_attributes(g) ==
    LET present == {field \in FieldNames : g[field] # None}
    IN  [key \in {Alias(field) : field \in present} |->
            g[CHOOSE field \in present : Alias(field) = key]]

\* a constructor that knows the fields by their names only
KwargsByNameOnly(m) ==
    [field \in FieldNames |-> IF field \in DOMAIN m THEN m[field] ELSE None]

\* GenAiAttributes(**m) for a map m: with populate_by_name a field is taken from its
\* alias or from its name, and is None (its default) when m has neither
Kwargs(m) ==
    [field \in FieldNames |->
        IF Alias(field) \in DOMAIN m THEN m[Alias(field)]
        ELSE IF field \in DOMAIN m THEN m[field]
        ELSE None]

\* a conversion that serialises the empty lists too
DumpsAlways(list) == JsonDumps(list)

\* `json.dumps(x) if x else None`
DumpsOrNone(list) == IF Len(list) > 0 THEN JsonDumps(list) ELSE None

convert_openinference_to_genai(a) ==
    LET model_name == extract_model_name(a)
        system == extract_system(a)
        response_id == extract_response_id(a)
        tool_definitions == extract_tool_definitions(a)
    IN  IF Raised(tool_definitions) THEN tool_definitions
    ELSE LET input == extract_input_messages(a) IN
    IF Raised(input) THEN input
    ELSE LET output_messages == extract_output_messages(a) IN
    IF Raised(output_messages) THEN output_messages
    ELSE LET token_usage == extract_token_usage(a)
             U(key) == IF key \in DOMAIN token_usage THEN token_usage[key] ELSE None
         IN  GenAiAttributes(
                [request_model |-> model_name,
                 system |-> system,
                 tool_definitions |-> DumpsOrNone(tool_definitions.val),
                 input_messages |-> DumpsOrNone(input.val.input_messages),
                 output_messages |-> DumpsOrNone(output_messages.val),
                 system_instructions |-> DumpsOrNone(input.val.system_instructions),
                 response_id |-> response_id,
                 input_tokens |-> U("gen_ai.usage.input_tokens"),
                 output_tokens |-> U("gen_ai.usage.output_tokens")])

\* is_openinference_span(scope_name); a name is the list of its characters
OPENINFERENCE == <<"o", "p", "e", "n", "i", "n", "f", "e", "r", "e", "n", "c", "e">>

is_openinference_span(scope_name) ==
    IF scope_name = None \/ scope_name.chars = <<>> THEN FALSE
    ELSE StartsWithSeq(scope_name.chars, OPENINFERENCE)

(***************************************************************************)
(* The converter as a state machine: the instrumentation sets attributes   *)
(* on a span (span.set_attribute), then the span ends and an extraction    *)
(* runs on its attributes.                                                 *)
(***************************************************************************)
MaxAttrs == 4

NoResult == [op |-> "none"]

MsgKey(prefix, idx, rest) == prefix \o <<idx, Name("message")>> \o rest
Item(key, value) == [key |-> key, value |-> value]

ROLE == <<Name("role")>>
CONTENT == <<Name("content")>>
TOOL_CALL_ID == <<Name("tool_call_id")>>
ToolCallField(n, field) == <<Name("tool_calls"), n, Name("tool_call")>> \o field
ContentsField(n, field) == <<Name("contents"), n, Name("message_content"), Name(field)>>

\* the (key, value) pairs the instrumentation may set on a message span
MessageItems == <<
    Item(MsgKey(LLM_INPUT_MESSAGES, <<"0", "0">>, ROLE), PyStr("system")),
    Item(MsgKey(LLM_INPUT_MESSAGES, <<"0">>, ROLE), PyStr("user")),
    Item(MsgKey(LLM_INPUT_MESSAGES, <<"0">>, ROLE), PyStr("tool")),
    Item(MsgKey(LLM_INPUT_MESSAGES, <<"0">>, CONTENT), PyStr("Hello")),
    Item(MsgKey(LLM_INPUT_MESSAGES, <<"0">>, CONTENT), PyStr("{\"ok\":true}")),
    Item(MsgKey(LLM_INPUT_MESSAGES, <<"0">>, CONTENT), PyStr("")),
    Item(MsgKey(LLM_INPUT_MESSAGES, <<"0">>, CONTENT), PyInt(5)),
    Item(MsgKey(LLM_INPUT_MESSAGES, <<"0">>, TOOL_CALL_ID), PyStr("call_1")),
    Item(MsgKey(LLM_INPUT_MESSAGES, <<"0">>, ToolCallField(<<"1", "0">>, <<Name("id")>>)),
         PyStr("call_10")),
    Item(MsgKey(LLM_INPUT_MESSAGES, <<"0">>,
                ToolCallField(<<"2">>, <<Name("function"), Name("name")>>)), PyStr("f")),
    Item(MsgKey(LLM_INPUT_MESSAGES, <<"0">>, ContentsField(<<"0">>, "type")), PyStr("text")),
    Item(MsgKey(LLM_INPUT_MESSAGES, <<"0">>, ContentsField(<<"0">>, "type")), PyStr("image")),
    Item(MsgKey(LLM_INPUT_MESSAGES, <<"0">>, ContentsField(<<"0">>, "text")), PyStr("Hi")),
    Item(MsgKey(LLM_INPUT_MESSAGES, <<"0", "0">>, ROLE), PyStr("tool")),
    Item(MsgKey(LLM_INPUT_MESSAGES, <<"1", "0">>, ROLE), PyStr("assistant")),
    Item(MsgKey(LLM_INPUT_MESSAGES, <<"2">>, ROLE), PyStr("user")),
    Item(MsgKey(LLM_INPUT_MESSAGES, <<"2">>, <<Name("name")>>), PyStr("bob")),
    Item(MsgKey(LLM_INPUT_MESSAGES, <<"5">>, CONTENT), PyStr("Hello")),
    Item(MsgKey(LLM_INPUT_MESSAGES, Name("x"), ROLE), PyStr("user")),
    Item(LLM_INPUT_MESSAGES \o <<<<"3">>, Name("role")>>, PyStr("user")),
    Item(MsgKey(LLM_OUTPUT_MESSAGES, <<"0">>, ROLE), PyStr("assistant")),
    Item(MsgKey(LLM_OUTPUT_MESSAGES, <<"1">>, CONTENT), PyStr("Hello"))
>>

\* span.set_attribute(key, value), the items taken in the order of the list `items`
SetAttribute(items, c) ==
    /\ result = NoResult
    /\ attrs # None
    /\ Len(attrs.items) < MaxAttrs
    /\ ~HasKey(attrs, items[c].key)
    /\ \A i \in 1..Len(attrs.items) : \A d \in 1..Len(items) :
          items[d] = attrs.items[i] => d < c
    /\ attrs' = Attributes(Append(attrs.items, items[c]))
    /\ UNCHANGED result

SetMessageAttribute ==
    /\ \E c \in 1..Len(MessageItems) : SetAttribute(MessageItems, c)
    /\ UNCHANGED <<pipeVars, bridgeVars, pc>>

\* _extract_messages(attrs, prefix) on the finished span
ExtractMessages ==
    /\ result = NoResult
    /\ \E prefix \in {LLM_INPUT_MESSAGES, LLM_OUTPUT_MESSAGES} :
          result' = [op |-> "_extract_messages", prefix |-> prefix,
                     ret |-> extract_messages(attrs, prefix)]
    /\ UNCHANGED <<attrs, pipeVars, bridgeVars, pc>>

(***************************************************************************)
(* IntrospectionSpanProcessor (span_processor.py)                          *)
(***************************************************************************)
Unset == None
EnvValues == {Unset, PyStr(""), PyStr("secret")}

\* os.getenv(name), os.getenv(name, default)
GetEnv(name) == environ[name]
GetEnvOr(name, default) == IF environ[name] = Unset THEN default ELSE environ[name]

\* a or b
PyOr(a, b) == IF Truthy(a) THEN a ELSE b

\* AdvancedOptions as far as the constructors read it; span_exporter is None or an
\* exporter object
CustomExporter == [k |-> "exporter"]
AdvancedOptions == [span_exporter : {None, CustomExporter},
                    base_url : {None, PyStr("http://localhost:5418")}]
TokenArgs == {None, PyStr(""), PyStr("secret")}

\* a constructor that accepts a missing token
TokenNeverMissing(token) == FALSE

\* `if not token: raise ValueError("INTROSPECTION_TOKEN is not set")`, on the
\* token argument or-ed with the environment's
TokenMissing(token) == ~Truthy(PyOr(token, GetEnv("INTROSPECTION_TOKEN")))

\* IntrospectionSpanProcessor.__init__: the exception it raises, "none" when it returns
SpanProcessorInit(token, advanced) ==
    IF Truthy(advanced.span_exporter) THEN "none"
    ELSE LET base_url == PyOr(advanced.base_url,
                              GetEnvOr("INTROSPECTION_BASE_URL", PyStr("https://api.nuraline.ai")))
         IN  IF ~Truthy(base_url) THEN "ValueError: INTROSPECTION_BASE_URL is not set"
             ELSE IF TokenMissing(token) THEN "ValueError: INTROSPECTION_TOKEN is not set"
             ELSE "none"

NewSpanProcessor ==
    /\ processor.state = "absent"
    /\ \E token \in TokenArgs, advanced \in AdvancedOptions :
          LET exc == SpanProcessorInit(token, advanced)
          IN  /\ processor' = [state |-> IF exc = "none" THEN "ready" ELSE "failed"]
              /\ outcome' = [op |-> "__init__", cls |-> "IntrospectionSpanProcessor",
                             token |-> token, advanced |-> advanced, raised |-> exc]
    /\ UNCHANGED <<environ, lifecycle, downstream, convVars, bridgeVars, pc>>

\* The host SDK's spans.  A span is created with its sampling decision and its
\* instrumentation scope; its attributes are those it has when it ends.
HostSpans == {"A", "B"}

ScopeName(chars) == [k |-> "name", chars |-> chars]
InstrumentationScope(chars) == [k |-> "scope", name |-> ScopeName(chars)]
Scopes == {None,
           InstrumentationScope(<<>>),
           InstrumentationScope(OPENINFERENCE),
           InstrumentationScope(OPENINFERENCE \o <<".", "o", "p", "e", "n", "a", "i">>),
           InstrumentationScope(<<"o", "p", "e", "n">>),
           InstrumentationScope(<<"x", ".">> \o OPENINFERENCE)}

\* attribute maps a finished span may carry
SpanAttributeSamples == {
    None,
    Attributes(<<>>),
    Attributes(<<Item(LLM_MODEL_NAME, PyStr("gpt-4")),
                 Item(MsgKey(LLM_INPUT_MESSAGES, <<"0">>, ROLE), PyStr("user")),
                 Item(MsgKey(LLM_INPUT_MESSAGES, <<"0">>, CONTENT), PyStr("Hello")),
                 Item(LLM_TOKEN_COUNT_PROMPT, PyInt(7))>>),
    Attributes(<<Item(INPUT_VALUE, PyStr("[1]"))>>),
    Attributes(<<Item(JsonSchemaKey(0), PyStr("[1]"))>>),
    Attributes(<<Item(MsgKey(LLM_INPUT_MESSAGES, <<"0">>, ROLE), PyStr("tool")),
                 Item(MsgKey(LLM_INPUT_MESSAGES, <<"0">>, TOOL_CALL_ID), PyStr("call_1")),
                 Item(MsgKey(LLM_INPUT_MESSAGES, <<"0">>, CONTENT), PyInt(5))>>),
    Attributes(<<Item(LLM_TOKEN_COUNT_PROMPT, PyStr("abc"))>>),
    Attributes(<<Item(INPUT_VALUE, PyStr("{bad")), Item(OUTPUT_VALUE, PyStr("{bad"))>>)}

\* scope.name if scope else None; a span's scope is None or an object with a name
ScopeNameOf(span) == IF span.scope = None THEN None ELSE span.scope.name

\* an on_end without the sampling gate
DroppedNever(span) == FALSE

\* `if not span.context.trace_flags.sampled: return`
Dropped(span) == ~span.sampled

\* ConvertedReadableSpan(span, converted_attrs)
ConvertedReadableSpan(id, converted_attrs) ==
    [view |-> "converted", original |-> id, converted_attrs |-> converted_attrs]
Original(id) == [view |-> "original", original |-> id]

\* an on_start that forwards the sampled spans only
OnStartSampledOnly(s) ==
    /\ processor.state = "ready"
    /\ lifecycle[s].state = "new"
    /\ \E sampled \in BOOLEAN, scope \in Scopes :
          /\ lifecycle' = [lifecycle EXCEPT ![s] =
                [state |-> "started", sampled |-> sampled, scope |-> scope,
                 attributes |-> None]]
          /\ downstream' = IF sampled
                           THEN Append(downstream, [op |-> "on_start", span |-> Original(s)])
                           ELSE downstream
    /\ outcome' = [op |-> "on_start", span |-> s, raised |-> "none", conversions |-> 0]
    /\ UNCHANGED <<environ, processor, convVars, bridgeVars, pc>>

\* IntrospectionSpanProcessor.on_start
on_start(s) ==
    /\ processor.state = "ready"
    /\ lifecycle[s].state = "new"
    /\ \E sampled \in BOOLEAN, scope \in Scopes :
          lifecycle' = [lifecycle EXCEPT ![s] =
              [state |-> "started", sampled |-> sampled, scope |-> scope,
               attributes |-> None]]
    /\ downstream' = Append(downstream, [op |-> "on_start", span |-> Original(s)])
    /\ outcome' = [op |-> "on_start", span |-> s, raised |-> "none", conversions |-> 0]
    /\ UNCHANGED <<environ, processor, convVars, bridgeVars, pc>>

\* on_end with the conversion done: the converted view goes downstream, an exception
\* of the conversion leaves on_end before the forwarding call
ForwardConverted(id, converted_attrs) ==
    IF Raised(converted_attrs)
    THEN [forward |-> <<>>, raised |-> converted_attrs.exc, conversions |-> 1]
    ELSE [forward |-> <<[op |-> "on_end",
                         span |-> ConvertedReadableSpan(id, converted_attrs.val)]>>,
          raised |-> "none", conversions |-> 1]

\* IntrospectionSpanProcessor.on_end: what it forwards and how it ends
OnEnd(id, span) ==
    IF Dropped(span)
    THEN [forward |-> <<>>, raised |-> "none", conversions |-> 0]
    ELSE IF is_openinference_span(ScopeNameOf(span))
    THEN ForwardConverted(id, convert_openinference_to_genai(span.attributes))
    ELSE [forward |-> <<[op |-> "on_end", span |-> Original(id)]>>,
          raised |-> "none", conversions |-> 0]

\* the state on_end leaves: the span ended, the forwarded call appended
Ends(s, span, r) ==
    /\ lifecycle' = [lifecycle EXCEPT ![s] = span]
    /\ downstream' = downstream \o r.forward
    /\ outcome' = [op |-> "on_end", span |-> s, raised |-> r.raised,
                   conversions |-> r.conversions]

on_end(s) ==
    /\ processor.state = "ready"
    /\ lifecycle[s].state = "started"
    /\ \E a \in SpanAttributeSamples :
          \E span \in {[lifecycle[s] EXCEPT !.state = "ended", !.attributes = a]} :
              Ends(s, span, OnEnd(s, span))
    /\ UNCHANGED <<environ, processor, convVars, bridgeVars, pc>>

\* The downstream processor's shutdown and force_flush are the host SDK's: a call
\* returns or raises an exception (a subclass of Exception), and force_flush returns
\* whether the flush completed within the timeout.
Exceptions == {"RuntimeError", "ValueError"}
MaxCalls == 3
Timeouts == {30000, 5}

\* a shutdown without the try
PropagateShutdown(exc) == exc

\* `try: self._span_processor.shutdown() except Exception as e: logger.warning(...)`:
\* the exception that leaves shutdown when the downstream's call ended with exc
TryShutdown(exc) == IF exc \in Exceptions THEN "none" ELSE exc

\* IntrospectionSpanProcessor.shutdown
shutdown ==
    /\ processor.state = "ready"
    /\ Len(downstream) < MaxCalls
    /\ \E exc \in {"none"} \cup Exceptions :
          /\ downstream' = Append(downstream, [op |-> "shutdown", raised |-> exc])
          /\ outcome' = [op |-> "shutdown", raised |-> TryShutdown(exc)]
    /\ UNCHANGED <<environ, processor, lifecycle, convVars, bridgeVars, pc>>

\* a force_flush that reports success whatever the downstream returned
FlushedAlways(flushed) == IF Raised(flushed) THEN flushed ELSE Ok(TRUE)

\* `return self._span_processor.force_flush(timeout_millis)`
Flushed(flushed) == flushed

\* IntrospectionSpanProcessor.force_flush(timeout_millis)
force_flush ==
    /\ processor.state = "ready"
    /\ Len(downstream) < MaxCalls
    /\ \E timeout_millis \in Timeouts :
       \E flushed \in {Ok(TRUE), Ok(FALSE)} \cup {Raise(exc) : exc \in Exceptions} :
          /\ downstream' = Append(downstream,
                [op |-> "force_flush", timeout_millis |-> timeout_millis,
                 ret |-> flushed])
          /\ outcome' = [op |-> "force_flush", timeout_millis |-> timeout_millis,
                         ret |-> Flushed(flushed)]
    /\ UNCHANGED <<environ, processor, lifecycle, convVars, bridgeVars, pc>>

(***************************************************************************)
(* converters/openai.py: the Responses API converters.  Messages and parts *)
(* are dict values here, since a content item that is a dict is passed     *)
(* through as a part.                                                      *)
(***************************************************************************)
\* str(v) of the values the model uses
StrOf(v) ==
    CASE v.k = "str" -> v
      [] v.k = "int" -> IF v.n = 5 THEN PyStr("5") ELSE PyStr("<int>")
      [] v.k = "none" -> PyStr("None")
      [] OTHER -> PyStr("<repr>")

TextPart(content) == PyDict(("type" :> PyStr("text")) @@ ("content" :> content))

\* one item of a content list
ContentItemPart(item) ==
    IF IsDict(item) /\ Get(item, "type") = PyStr("output_text")
    THEN TextPart(GetOr(item, "text", PyStr("")))
    ELSE IF IsDict(item) THEN item ELSE TextPart(StrOf(item))

\* the parts of a message item with truthy content
ContentParts(content) ==
    IF IsStr(content) THEN <<TextPart(content)>>
    ELSE IF IsList(content)
    THEN [i \in 1..Len(content.items) |-> ContentItemPart(content.items[i])]
    ELSE <<>>

Message(role, parts) == PyDict(("role" :> role) @@ ("parts" :> PyList(parts)))

FunctionCallMessage(item) ==
    Message(PyStr("assistant"),
            <<PyDict(("type" :> PyStr("tool_call")) @@ ("id" :> Get(item, "call_id"))
                     @@ ("name" :> Get(item, "name"))
                     @@ ("arguments" :> Get(item, "arguments")))>>)

FunctionCallOutputMessage(item) ==
    LET msg == Message(PyStr("tool"),
                       <<PyDict(("type" :> PyStr("tool_call_response"))
                                @@ ("id" :> Get(item, "call_id"))
                                @@ ("response" :> Get(item, "output")))>>)
    IN  IF "name" \in DOMAIN item.f
        THEN PyDict(("name" :> item.f["name"]) @@ msg.f)
        ELSE msg

\* the body of the loop over inputs: the messages appended for one item, or
\* AttributeError from inp.get on an item that is no dict
InputItemMessages(inp) ==
    IF ~IsDict(inp) THEN Raise("AttributeError")
    ELSE LET role == GetOr(inp, "role", PyStr("user"))
             typ == Get(inp, "type")
             content == Get(inp, "content")
         IN  IF typ \in {None, PyStr("message")} /\ Truthy(content)
             THEN Ok(<<Message(role, ContentParts(content))>>)
             ELSE IF typ = PyStr("function_call") THEN Ok(<<FunctionCallMessage(inp)>>)
             ELSE IF typ = PyStr("function_call_output")
             THEN Ok(<<FunctionCallOutputMessage(inp)>>)
             ELSE Ok(<<>>)

\* the body of the loop over outputs
OutputItemMessages(out) ==
    IF ~IsDict(out) THEN Raise("AttributeError")
    ELSE LET typ == Get(out, "type")
             content == Get(out, "content")
         IN  IF typ \in {None, PyStr("message")} /\ Truthy(content)
             THEN Ok(<<Message(PyStr("assistant"), ContentParts(content))>>)
             ELSE IF typ = PyStr("function_call") THEN Ok(<<FunctionCallMessage(out)>>)
             ELSE Ok(<<>>)

\* iterating a value: the items of a list, the characters of a string, the keys of
\* a dict (one item stands for them: the loop body raises at the first)
IterItems(v) ==
    IF IsList(v) THEN v.items
    ELSE IF IsStr(v) THEN IF v.s = "" THEN <<>> ELSE <<PyStr("<char>")>>
    ELSE IF IsDict(v) THEN IF DOMAIN v.f = {} THEN <<>> ELSE <<PyStr("<key>")>>
    ELSE <<>>

RECURSIVE EachItem(_, _)
EachItem(items, input) ==
    IF items = <<>> THEN Ok(<<>>)
    ELSE LET here == IF input THEN InputItemMessages(Head(items))
                     ELSE OutputItemMessages(Head(items))
         IN  IF Raised(here) THEN here
             ELSE LET rest == EachItem(Tail(items), input)
                  IN  IF Raised(rest) THEN rest ELSE Ok(here.val \o rest.val)

\* a converter that puts the instructions into the message list, as a system message
ConvertFoldingInstructions(inputs, instructions) ==
    LET input_messages == IF Truthy(inputs) THEN EachItem(IterItems(inputs), TRUE)
                          ELSE Ok(<<>>)
    IN  IF Raised(input_messages) THEN input_messages
        ELSE Ok([input_messages |->
                    (IF Truthy(instructions)
                     THEN <<Message(PyStr("system"), <<TextPart(instructions)>>)>>
                     ELSE <<>>) \o input_messages.val,
                 system_instructions |-> <<>>])

\* (input_messages, system_instructions)
convert_responses_inputs_to_semconv(inputs, instructions) ==
    LET system_instructions == IF Truthy(instructions) THEN <<TextPart(instructions)>>
                               ELSE <<>>
        input_messages == IF Truthy(inputs) THEN EachItem(IterItems(inputs), TRUE)
                          ELSE Ok(<<>>)
    IN  IF Raised(input_messages) THEN input_messages
        ELSE Ok([input_messages |-> input_messages.val,
                 system_instructions |-> system_instructions])

convert_responses_outputs_to_semconv(outputs) == EachItem(IterItems(outputs), FALSE)

(***************************************************************************)
(* IntrospectionTracingProcessor (tracing_processor.py), the trace bridge  *)
(***************************************************************************)
TraceIds == {"trace_1"}
SpanIds == {"span_1", "span_2"}
MaxHandles == 3

PyBool(b) == [k |-> "bool", b |-> b]

\* span data of the five kinds, and of a kind the bridge does not know
AgentSpanData(name, tools, handoffs, output_type) ==
    [type |-> "agent", name |-> name, tools |-> tools, handoffs |-> handoffs,
     output_type |-> output_type]
FunctionSpanData(name, input, output) ==
    [type |-> "function", name |-> name, input |-> input, output |-> output]
ResponseSpanData(response, input) ==
    [type |-> "response", response |-> response, input |-> input]
GenerationSpanData(model, usage, input, output) ==
    [type |-> "generation", model |-> model, usage |-> usage, input |-> input,
     output |-> output]
HandoffSpanData(from_agent, to_agent) ==
    [type |-> "handoff", from_agent |-> from_agent, to_agent |-> to_agent]
CustomSpanData(name, data) == [type |-> "custom", name |-> name, data |-> data]

\* a value json.dumps has no encoding for
Opaque == [k |-> "object"]

UserHello == PyDict(("role" :> PyStr("user")) @@ ("content" :> PyStr("Hello")))
OutputText ==
    PyDict(("type" :> PyStr("message")) @@
           ("content" :> PyList(<<PyDict(("type" :> PyStr("output_text"))
                                         @@ ("text" :> PyStr("Hi")))>>)))

FunctionTool(name, description, parameters) ==
    [function |-> TRUE, type |-> PyStr("function"), name |-> name,
     description |-> description, parameters |-> parameters]
OtherTool(type) == [function |-> FALSE, type |-> type]

Response(instructions, tools, usage, model, id, output) ==
    [k |-> "response", instructions |-> instructions, tools |-> tools, usage |-> usage,
     model |-> model, id |-> id, output |-> output]
Usage(input_tokens, output_tokens) ==
    [k |-> "usage", input_tokens |-> input_tokens, output_tokens |-> output_tokens]

FullResponse ==
    Response(PyStr("Be helpful"),
             <<FunctionTool(PyStr("get_weather"), PyStr("weather"), EmptyDict),
               OtherTool(PyStr("web_search"))>>,
             Usage(7, 0), PyStr("gpt-4"), PyStr("resp_1"), PyList(<<OutputText>>))
BareResponse == Response(None, <<>>, None, PyStr("gpt-4"), PyStr("resp_2"), PyList(<<>>))

SpanDatas == {
    AgentSpanData(PyStr("triage"), None, None, None),
    AgentSpanData(PyStr("billing"), PyList(<<PyStr("get_weather")>>),
                  PyList(<<PyStr("triage")>>), PyStr("str")),
    FunctionSpanData(PyStr("get_weather"), PyStr("{\"city\":\"x\"}"), PyStr("sunny")),
    FunctionSpanData(PyStr("noop"), None, None),
    ResponseSpanData(None, None),
    ResponseSpanData(FullResponse, PyList(<<UserHello>>)),
    ResponseSpanData(BareResponse, PyStr("Hello")),
    GenerationSpanData(PyStr("gpt-4"),
                       PyDict(("input_tokens" :> PyInt(7)) @@ ("output_tokens" :> PyInt(3))),
                       PyList(<<UserHello>>), PyList(<<UserHello>>)),
    GenerationSpanData(None, PyDict("input_tokens" :> None), None, None),
    HandoffSpanData(PyStr("triage"), PyStr("billing")),
    HandoffSpanData(None, None),
    CustomSpanData(PyStr("my_step"), EmptyDict),
    CustomSpanData(PyStr("my_step"), PyDict("client" :> Opaque))}

\* span_data.export()
Export(d) ==
    CASE d.type = "agent" ->
            PyDict(("type" :> PyStr("agent")) @@ ("name" :> d.name) @@ ("handoffs" :> d.handoffs)
                   @@ ("tools" :> d.tools) @@ ("output_type" :> d.output_type))
      [] d.type = "function" ->
            PyDict(("type" :> PyStr("function")) @@ ("name" :> d.name) @@ ("input" :> d.input)
                   @@ ("output" :> IF Truthy(d.output) THEN StrOf(d.output) ELSE None))
      [] d.type = "response" ->
            PyDict(("type" :> PyStr("response")) @@
                   ("response_id" :> IF d.response = None THEN None ELSE d.response.id))
      [] d.type = "generation" ->
            PyDict(("type" :> PyStr("generation")) @@ ("input" :> d.input)
                   @@ ("output" :> d.output) @@ ("model" :> d.model) @@ ("usage" :> d.usage))
      [] d.type = "handoff" ->
            PyDict(("type" :> PyStr("handoff")) @@ ("from_agent" :> d.from_agent)
                   @@ ("to_agent" :> d.to_agent))
      [] OTHER -> PyDict(("type" :> PyStr(d.type)) @@ ("name" :> d.name)
                         @@ ("data" :> d.data))

\* json.dumps(v) returns: v holds no value without a JSON encoding (it raises
\* TypeError otherwise)
RECURSIVE Serialisable(_)
Serialisable(v) ==
    CASE v.k = "object" -> FALSE
      [] v.k = "dict" -> \A key \in DOMAIN v.f : Serialisable(v.f[key])
      [] v.k = "list" -> \A i \in 1..Len(v.items) : Serialisable(v.items[i])
      [] OTHER -> TRUE

\* otel_span.set_attribute(key, value): the SDK keeps a value of an attribute type
\* and drops, with a warning, any other (None, a dict)
ValidAttributeValue(v) ==
    \/ v.k \in {"str", "int", "float", "bool", "jsonstr"}
    \/ v.k = "list" /\ \A i \in 1..Len(v.items) : v.items[i].k \in {"str", "int", "float", "bool"}

set_attribute(attributes, key, value) ==
    IF ValidAttributeValue(value) THEN SetItem(attributes, key, value) ELSE attributes

\* one call otel_span.set_attribute(key, value) of the bridge
Call(key, value) == [key |-> key, value |-> value]

\* a guard that is always taken
CallAlways(cond, key, value) == <<Call(key, value)>>

\* `if cond: otel_span.set_attribute(key, value)`
CallIf(cond, key, value) == IF cond THEN <<Call(key, value)>> ELSE <<>>

\* the attributes of the otel span after the calls, made in order
RECURSIVE SetAll(_, _)
SetAll(attributes, calls) ==
    IF calls = <<>> THEN attributes
    ELSE SetAll(set_attribute(attributes, Head(calls).key, Head(calls).value), Tail(calls))

\* The five extractors: the set_attribute calls each makes for a span data d.
process_agent_span(d) ==
    <<Call("gen_ai.agent.name", d.name)>>
    \o CallIf(Truthy(d.tools), "gen_ai.tool.definitions", JsonDumps(d.tools))
    \o CallIf(Truthy(d.handoffs), "gen_ai.agent.handoffs", JsonDumps(d.handoffs))
    \o CallIf(Truthy(d.output_type), "gen_ai.agent.output_type", d.output_type)

process_function_span(d) ==
    <<Call("gen_ai.tool.name", d.name)>>
    \o CallIf(Truthy(d.input), "gen_ai.tool.input", d.input)
    \o CallIf(Truthy(d.output), "gen_ai.tool.output", StrOf(d.output))

process_handoff_span(d) ==
    CallIf(Truthy(d.from_agent), "gen_ai.handoff.from_agent", d.from_agent)
    \o CallIf(Truthy(d.to_agent), "gen_ai.handoff.to_agent", d.to_agent)

process_generation_span(d) ==
    LET usage == d.usage
        isDict == Truthy(usage) /\ IsDict(usage)
    IN  CallIf(Truthy(d.model), "gen_ai.request.model", d.model)
        \o CallIf(isDict /\ "input_tokens" \in DOMAIN usage.f,
                  "gen_ai.usage.input_tokens", Get(usage, "input_tokens"))
        \o CallIf(isDict /\ "output_tokens" \in DOMAIN usage.f,
                  "gen_ai.usage.output_tokens", Get(usage, "output_tokens"))
        \o CallIf(Truthy(d.input), "gen_ai.input.messages", JsonDumps(d.input))
        \o CallIf(Truthy(d.output), "gen_ai.output.messages", JsonDumps(d.output))

\* one entry of tool_defs
ToolDef(tool) ==
    IF tool.function
    THEN PyDict(("name" :> tool.name)
                @@ (IF Truthy(tool.description) THEN "description" :> tool.description
                    ELSE <<>>)
                @@ (IF Truthy(tool.parameters) THEN "parameters" :> tool.parameters
                    ELSE <<>>))
    ELSE PyDict("name" :> tool.type)

\* a call that raised after it had made some calls
RaiseWith(e, v) == [exc |-> e, val |-> v]

\* _process_response_span: the calls it makes, and the exception of a converter
process_response_span(d) ==
    LET response == d.response IN
    IF response = None THEN Ok(<<>>)
    ELSE LET usage == response.usage
             c6 == CallIf(Truthy(response.instructions), "gen_ai.system_instructions",
                          JsonDumps(<<TextPart(response.instructions)>>))
                   \o CallIf(Len(response.tools) > 0, "gen_ai.tool.definitions",
                             JsonDumps([i \in 1..Len(response.tools) |->
                                           ToolDef(response.tools[i])]))
                   \o CallIf(usage # None /\ usage.input_tokens # 0,
                             "gen_ai.usage.input_tokens", PyInt(usage.input_tokens))
                   \o CallIf(usage # None /\ usage.output_tokens # 0,
                             "gen_ai.usage.output_tokens", PyInt(usage.output_tokens))
                   \o CallIf(Truthy(response.model), "gen_ai.request.model", response.model)
                   \o CallIf(Truthy(response.id), "gen_ai.response.id", response.id)
             input == IF Truthy(d.input) THEN convert_responses_inputs_to_semconv(d.input, None)
                      ELSE Ok([input_messages |-> <<>>, system_instructions |-> <<>>])
         IN  IF Raised(input) THEN RaiseWith(input.exc, c6)
             ELSE LET c7 == c6 \o CallIf(Len(input.val.input_messages) > 0,
                                         "gen_ai.input.messages",
                                         JsonDumps(input.val.input_messages))
                      output == IF Truthy(response.output)
                                THEN convert_responses_outputs_to_semconv(response.output)
                                ELSE Ok(<<>>)
                  IN  IF Raised(output) THEN RaiseWith(output.exc, c7)
                      ELSE Ok(c7 \o CallIf(Len(output.val) > 0, "gen_ai.output.messages",
                                           JsonDumps(output.val)))

\* the dispatch on span_data.type in on_span_end: the calls of the extractor chosen
SpanCalls(d) ==
    CASE d.type = "agent" -> Ok(process_agent_span(d))
      [] d.type = "function" -> Ok(process_function_span(d))
      [] d.type = "response" -> process_response_span(d)
      [] d.type = "generation" -> Ok(process_generation_span(d))
      [] d.type = "handoff" -> Ok(process_handoff_span(d))
      [] OTHER -> Ok(<<>>)

\* the attributes the extractor leaves on the otel span, and its exception if any
Processed(a, r) ==
    IF Raised(r) THEN RaiseWith(r.exc, SetAll(a, r.val)) ELSE Ok(SetAll(a, r.val))
ProcessSpan(a, d) == Processed(a, SpanCalls(d))

\* the name on_span_start gives the otel span
SpanName(d) == IF d.type \in {"agent", "function"} THEN d.name ELSE PyStr(d.type)

\* The objects the agents SDK passes to the callbacks.
Trace(trace_id, name) == [k |-> "trace", trace_id |-> trace_id, name |-> name]
AgentSpan(span_id, trace_id, parent_id, span_data) ==
    [k |-> "span", span_id |-> span_id, trace_id |-> trace_id, parent_id |-> parent_id,
     span_data |-> span_data]

TraceObjects == {None} \cup {Trace(t, PyStr("workflow")) : t \in TraceIds}
ParentIds == {None, PyStr("")} \cup {PyStr(i) : i \in TraceIds \cup SpanIds}
SpanObjectsOf(parents, datas) ==
    {None} \cup {span \in {AgentSpan(i, t, p, d) :
                              i \in SpanIds, t \in TraceIds, p \in parents, d \in datas} :
                    span.parent_id # PyStr(span.span_id)}
SpanObjects == SpanObjectsOf(ParentIds, SpanDatas)

\* the spans of a bridged agent run: span_1 is an agent span, span_2 a model response
\* whose input is a string; each has no parent id, or the trace's id or the other
\* span's as parent id
RunSpanData(id) ==
    IF id = "span_1" THEN AgentSpanData(PyStr("triage"), None, None, None)
    ELSE ResponseSpanData(BareResponse, PyStr("Hello"))
RunSpans ==
    {span \in SpanObjectsOf(ParentIds \ {PyStr("")}, {RunSpanData(i) : i \in SpanIds}) :
        span # None => span.span_data = RunSpanData(span.span_id)} 

\* the current OpenTelemetry context of the calling thread: 0 when it holds no span,
\* -1 when it holds a span of the host application
AmbientContexts == {0, -1}

\* tracer.start_span(name, context): the new otel span.  context is the parent's
\* handle, or 0 for context=None, and then the SDK takes the current context.  origin
\* records the callback argument the span was started for and the handle its parent
\* key had among the ids started and not ended (0 for none).
StartSpan(name, context, ambient, origin) ==
    LET parent == IF context # 0 THEN context ELSE ambient
    IN  [name |-> name,
         parent |-> parent,
         trace |-> IF parent = 0 THEN Len(handles) + 1
                   ELSE IF parent = -1 THEN 0
                   ELSE handles[parent].trace,
         attributes |-> <<>>,
         ended |-> FALSE,
         origin |-> origin]

\* self._spans.get(parent_id) with parent_id = span.parent_id or span.trace_id;
\* 0 when the map has no such key
ParentKey(span) == IF Truthy(span.parent_id) THEN span.parent_id.s ELSE span.trace_id

LookupParent(m, span) == IF ParentKey(span) \in DOMAIN m THEN m[ParentKey(span)] ELSE 0

\* an assignment that replaces the map by one holding only the new entry
StoreOnly(m, id, h) == id :> h

\* self._spans[id] = otel_span
StoreHandle(m, id, h) == SetItem(m, id, h)

\* a pop that leaves the entry in the map
PopNothing(m, id) == m

\* self._spans.pop(id, None): the map afterwards
PopHandle(m, id) == DelItem(m, id)

\* the handle the ids started and not ended give for a span's parent key, 0 for none
ExpectedParent(span) ==
    IF ParentKey(span) \in DOMAIN started THEN started[ParentKey(span)].handle ELSE 0

\* How far the callbacks so far follow the sequence on_trace_start(T),
\* on_span_start(S), on_span_end(S), on_trace_end(T), with S's parent absent or T's id:
\* the last callback of the sequence they have reached, "other" once they left it.
Scenario(op, arg) ==
    IF arg = None THEN "other"
    ELSE IF lastcb.scenario = "none" /\ op = "on_trace_start" THEN "on_trace_start"
    ELSE IF /\ lastcb.scenario = "on_trace_start"
            /\ op = "on_span_start"
            /\ arg.trace_id = handles[1].origin.arg.trace_id
            /\ arg.parent_id \in {None, PyStr(handles[1].origin.arg.trace_id)}
         THEN "on_span_start"
    ELSE IF /\ lastcb.scenario = "on_span_start"
            /\ op = "on_span_end" /\ arg = handles[2].origin.arg
         THEN "on_span_end"
    ELSE IF /\ lastcb.scenario = "on_span_end"
            /\ op = "on_trace_end" /\ arg = handles[1].origin.arg
         THEN "on_trace_end"
    ELSE "other"

\* what the last callback did: which it was, how it ended, and where it stands in the
\* scenario
CallbackId(arg) ==
    IF arg = None THEN "none" ELSE IF arg.k = "trace" THEN arg.trace_id ELSE arg.span_id
Callback(op, arg, raised) ==
    [op |-> op, id |-> CallbackId(arg), raised |-> raised, scenario |-> Scenario(op, arg)]

on_trace_start(trace) ==
    /\ bridge.state = "ready"
    /\ IF trace = None
       THEN /\ lastcb' = Callback("on_trace_start", trace, "none")
            /\ UNCHANGED <<spans, handles, exported, started>>
       ELSE /\ Len(handles) < MaxHandles
            /\ \E ambient \in AmbientContexts :
                  handles' = Append(handles,
                                    StartSpan(trace.name, 0, ambient,
                                              [arg |-> trace, expect |-> 0]))
            /\ spans' = StoreHandle(spans, trace.trace_id, Len(handles) + 1)
            /\ started' = SetItem(started, trace.trace_id,
                                  [obj |-> trace, handle |-> Len(handles) + 1])
            /\ lastcb' = Callback("on_trace_start", trace, "none")
            /\ UNCHANGED exported
    /\ UNCHANGED <<bridge, convVars, pipeVars, pc>>

\* an on_trace_end whose pop has no default: an id that is no key raises KeyError
OnTraceEndStrictPop(trace) ==
    /\ bridge.state = "ready"
    /\ IF trace = None
       THEN /\ lastcb' = Callback("on_trace_end", trace, "none")
            /\ UNCHANGED <<spans, handles, exported, started>>
       ELSE LET id == trace.trace_id
            IN  /\ spans' = PopHandle(spans, id)
                /\ started' = DelItem(started, id)
                /\ IF id \in DOMAIN spans
                   THEN /\ handles' = [handles EXCEPT ![spans[id]].ended = TRUE]
                        /\ exported' = IF handles[spans[id]].ended THEN exported
                                       ELSE Append(exported, spans[id])
                        /\ lastcb' = Callback("on_trace_end", trace, "none")
                   ELSE /\ UNCHANGED <<handles, exported>>
                        /\ lastcb' = Callback("on_trace_end", trace, "KeyError")
    /\ UNCHANGED <<bridge, convVars, pipeVars, pc>>

on_trace_end(trace) ==
    /\ bridge.state = "ready"
    /\ IF trace = None
       THEN /\ lastcb' = Callback("on_trace_end", trace, "none")
            /\ UNCHANGED <<spans, handles, exported, started>>
       ELSE LET id == trace.trace_id
            IN  /\ spans' = PopHandle(spans, id)
                /\ started' = DelItem(started, id)
                /\ IF id \in DOMAIN spans
                   THEN /\ handles' = [handles EXCEPT ![spans[id]].ended = TRUE]
                        /\ exported' = IF handles[spans[id]].ended THEN exported
                                       ELSE Append(exported, spans[id])
                   ELSE UNCHANGED <<handles, exported>>
                /\ lastcb' = Callback("on_trace_end", trace, "none")
    /\ UNCHANGED <<bridge, convVars, pipeVars, pc>>

on_span_start(span) ==
    /\ bridge.state = "ready"
    /\ IF span = None
       THEN /\ lastcb' = Callback("on_span_start", span, "none")
            /\ UNCHANGED <<spans, handles, exported, started>>
       ELSE LET parent == LookupParent(spans, span)
            IN  /\ Len(handles) < MaxHandles
                /\ \E ambient \in AmbientContexts :
                      handles' = Append(handles,
                                        StartSpan(SpanName(span.span_data), parent, ambient,
                                                  [arg |-> span,
                                                   expect |-> ExpectedParent(span)]))
                /\ spans' = StoreHandle(spans, span.span_id, Len(handles) + 1)
                /\ started' = SetItem(started, span.span_id,
                                      [obj |-> span, handle |-> Len(handles) + 1])
                /\ lastcb' = Callback("on_span_start", span, "none")
                /\ UNCHANGED exported
    /\ UNCHANGED <<bridge, convVars, pipeVars, pc>>

\* the body of on_span_end for a tracked span: the otel span afterwards and the
\* exception raised, if any, before it was ended
EndProcessed(h, d, r) ==
    IF Raised(r) THEN [handle |-> [h EXCEPT !.attributes = r.val], raised |-> r.exc]
    ELSE IF ~Serialisable(Export(d))
    THEN [handle |-> [h EXCEPT !.attributes = r.val], raised |-> "TypeError"]
    ELSE [handle |-> [h EXCEPT !.attributes =
                          set_attribute(r.val, "openai_agents.span_data",
                                        JsonDumps(Export(d))),
                        !.ended = TRUE],
          raised |-> "none"]

EndSpan(h, d) == EndProcessed(h, d, ProcessSpan(h.attributes, d))

\* the span object the agents SDK passes to on_span_end for an id: the one it passed
\* to on_span_start, when the id was started and not ended; a span without parent
\* otherwise
EndsStarted(span) ==
    span # None =>
        IF span.span_id \in DOMAIN started THEN span = started[span.span_id].obj
        ELSE span.parent_id = None

on_span_end(span) ==
    /\ bridge.state = "ready"
    /\ EndsStarted(span)
    /\ IF span = None
       THEN /\ lastcb' = Callback("on_span_end", span, "none")
            /\ UNCHANGED <<spans, handles, exported, started>>
       ELSE LET id == span.span_id
            IN  /\ spans' = PopHandle(spans, id)
                /\ started' = DelItem(started, id)
                /\ IF id \in DOMAIN spans
                   THEN \E r \in {EndSpan(handles[spans[id]], span.span_data)} :
                            /\ handles' = [handles EXCEPT ![spans[id]] = r.handle]
                            /\ exported' = IF r.raised = "none" /\ ~handles[spans[id]].ended
                                           THEN Append(exported, spans[id])
                                           ELSE exported
                            /\ lastcb' = Callback("on_span_end", span, r.raised)
                   ELSE /\ UNCHANGED <<handles, exported>>
                        /\ lastcb' = Callback("on_span_end", span, "none")
    /\ UNCHANGED <<bridge, convVars, pipeVars, pc>>

\* IntrospectionTracingProcessor.__init__: the exception it raises, "none" when it returns
TracingProcessorInit(token, advanced) ==
    IF Truthy(advanced.span_exporter) THEN "none"
    ELSE IF TokenMissing(token) THEN "ValueError: INTROSPECTION_TOKEN is not set"
    ELSE "none"

NewTracingProcessor ==
    /\ bridge.state = "absent"
    /\ \E token \in TokenArgs, advanced \in AdvancedOptions :
          LET exc == TracingProcessorInit(token, advanced)
          IN  /\ bridge' = [state |-> IF exc = "none" THEN "ready" ELSE "failed"]
              /\ outcome' = [op |-> "__init__", cls |-> "IntrospectionTracingProcessor",
                             token |-> token, advanced |-> advanced, raised |-> exc]
    /\ UNCHANGED <<environ, processor, lifecycle, downstream, spans, handles, exported,
                   started, lastcb, convVars, pc>>

(***************************************************************************)
(* Initial states and specifications                                       *)
(***************************************************************************)
ConvInit == attrs \in {None, Attributes(<<>>)} /\ result = NoResult
ConvIdle == attrs = None /\ result = NoResult

PipeInit ==
    /\ environ \in [{"INTROSPECTION_TOKEN", "INTROSPECTION_BASE_URL"} -> EnvValues]
    /\ processor = [state |-> "absent"]
    /\ lifecycle = [s \in HostSpans |-> [state |-> "new"]]
    /\ downstream = <<>>
    /\ outcome = [op |-> "none"]
PipeIdle ==
    /\ environ = [n \in {"INTROSPECTION_TOKEN", "INTROSPECTION_BASE_URL"} |-> Unset]
    /\ processor = [state |-> "absent"]
    /\ lifecycle = [s \in HostSpans |-> [state |-> "new"]]
    /\ downstream = <<>>
    /\ outcome = [op |-> "none"]

BridgeInit ==
    /\ bridge = [state |-> "absent"]
    /\ spans = <<>>
    /\ handles = <<>>
    /\ exported = <<>>
    /\ started = <<>>
    /\ lastcb = [op |-> "none", id |-> "none", raised |-> "none", scenario |-> "none"]

ThreadsIdle == pc = <<>>

\* the message extraction on its own
InitMessages == ConvInit /\ PipeIdle /\ BridgeInit /\ ThreadsIdle
NextMessages == SetMessageAttribute \/ ExtractMessages
SpecMessages == InitMessages /\ [][NextMessages]_vars

(***************************************************************************)
(* Properties of _extract_messages                                         *)
(***************************************************************************)
Extracted == result.op = "_extract_messages"

\* the message indices that occur in a key of the form <prefix>.<index>.message.<field>
IndicesIn(a, prefix) ==
    IF a = None THEN {}
    ELSE {ParseInt(a.items[i].key[Len(prefix) + 1]) :
            i \in {j \in 1..Len(a.items) : MatchesBase(a.items[j].key, prefix)}}

\* the groups the first loop builds for the extraction that ran
Groups == IF attrs = None THEN <<>>
          ELSE GroupMessages(attrs.items, result.prefix, Len(attrs.items))

\* the returned list has one message per index, in ascending order of the index
OnePerIndexAscending(messages) ==
    LET order == Sorted(IndicesIn(attrs, result.prefix))
    IN  /\ Len(messages) = Len(order)
        /\ \A n \in 1..Len(order) :
              /\ n < Len(order) => order[n] < order[n + 1]
              /\ messages[n].role = MessageRole(Groups[order[n]])

\* C9: for every attribute map, _extract_messages returns exactly one message per
\* distinct message index occurring in a key <prefix>.<index>.message.<field>, in
\* ascending numeric order of the index, and none for an index that occurs in no key.
C9_OneMessagePerIndex ==
    Extracted => ~Raised(result.ret) /\ OnePerIndexAscending(result.ret.val)

\* What holds of the code: the same, whenever the extraction returns.
ReturnedMessagesOnePerIndex ==
    Extracted /\ ~Raised(result.ret) => OnePerIndexAscending(result.ret.val)

\* the extraction raised on a map with messages at the indices 0 and 2
C9_Witness ==
    /\ Extracted /\ Raised(result.ret)
    /\ IndicesIn(attrs, result.prefix) = {0, 2}

\* the message rebuilt for a group is one tool_call_response part carrying the id
OnlyToolResponse(message, group) ==
    /\ Len(message.parts) = 1
    /\ message.parts[1].type = "tool_call_response"
    /\ message.parts[1].id = group["_tool_call_id"]

ToolGroups == {idx \in DOMAIN Groups : IsToolResponse(Groups[idx])}
PositionOf(idx) ==
    CHOOSE n \in 1..Cardinality(DOMAIN Groups) : Sorted(DOMAIN Groups)[n] = idx

\* C10: for every message group with role "tool" and a captured tool_call_id, the
\* reconstructed message has exactly one part, a tool_call_response carrying that id,
\* whatever else the group has (flat content, contents entries, tool_calls entries).
C10_ToolResponseSinglePart ==
    Extracted =>
        \A idx \in ToolGroups :
            /\ ~Raised(result.ret)
            /\ OnlyToolResponse(result.ret.val[PositionOf(idx)], Groups[idx])

\* What holds of the code: the same, whenever the extraction returns.
ReturnedToolResponseSinglePart ==
    Extracted /\ ~Raised(result.ret) =>
        \A idx \in ToolGroups :
            OnlyToolResponse(result.ret.val[PositionOf(idx)], Groups[idx])

\* the extraction of a tool response whose flat content is the integer 5 raised
C10_Witness ==
    /\ Extracted /\ result.ret.exc = "TypeError"
    /\ \E idx \in ToolGroups : Groups[idx]["_content_text"] = PyInt(5)

(***************************************************************************)
(* convert_openinference_to_genai on the attributes of a finished span     *)
(***************************************************************************)
GENERATIONS_JSON ==
    "{\"generations\":[[{},{\"message\":{\"kwargs\":{\"response_metadata\":{\"id\":\"lc_1\"}}}}],[{\"message\":{\"kwargs\":{\"response_metadata\":{\"id\":\"lc_2\"}}}}]]}"
FUNCTION_TOOL_JSON ==
    "{\"type\":\"function\",\"function\":{\"name\":\"f\",\"description\":\"d\",\"parameters\":{}}}"

\* the (key, value) pairs the instrumentation may set on an LLM span
SpanItems == <<
    Item(LLM_MODEL_NAME, PyStr("gpt-4")),
    Item(LLM_MODEL_NAME, PyInt(4)),
    Item(LLM_SYSTEM, PyStr("openai")),
    Item(GEN_AI_RESPONSE_ID, PyStr("resp_0")),
    Item(OUTPUT_VALUE, PyStr("{\"id\":\"resp_1\"}")),
    Item(OUTPUT_VALUE, PyStr(GENERATIONS_JSON)),
    Item(OUTPUT_VALUE, PyStr("{bad")),
    Item(OUTPUT_VALUE, PyStr("[1]")),
    Item(INPUT_VALUE, PyStr("{\"instructions\":\"Be helpful\"}")),
    Item(INPUT_VALUE, PyStr("{\"instructions\":5}")),
    Item(INPUT_VALUE, PyStr("[1]")),
    Item(INPUT_VALUE, PyStr("null")),
    Item(INPUT_VALUE, PyStr("{bad")),
    Item(JsonSchemaKey(0), PyStr(FUNCTION_TOOL_JSON)),
    Item(JsonSchemaKey(0), PyStr("{bad")),
    Item(JsonSchemaKey(0), PyStr("[1]")),
    Item(JsonSchemaKey(0), PyStr("null")),
    Item(JsonSchemaKey(1), PyStr("{\"name\":\"g\",\"description\":\"e\"}")),
    Item(LLM_TOOLS \o <<<<"0", "2">>>> \o TOOL_JSON_SCHEMA, PyStr(FUNCTION_TOOL_JSON)),
    Item(JsonSchemaKey(3) \o <<Name("extra")>>, PyStr(FUNCTION_TOOL_JSON)),
    Item(LLM_TOKEN_COUNT_PROMPT, PyInt(7)),
    Item(LLM_TOKEN_COUNT_PROMPT, PyStr("abc")),
    Item(LLM_TOKEN_COUNT_PROMPT, PyStr("12")),
    Item(LLM_TOKEN_COUNT_PROMPT, PyFloat(1, 5)),
    Item(LLM_TOKEN_COUNT_COMPLETION, PyInt(3)),
    Item(MsgKey(LLM_INPUT_MESSAGES, <<"0">>, ROLE), PyStr("system")),
    Item(MsgKey(LLM_INPUT_MESSAGES, <<"0">>, ROLE), PyStr("tool")),
    Item(MsgKey(LLM_INPUT_MESSAGES, <<"0">>, TOOL_CALL_ID), PyStr("call_1")),
    Item(MsgKey(LLM_INPUT_MESSAGES, <<"0">>, CONTENT), PyInt(5)),
    Item(MsgKey(LLM_INPUT_MESSAGES, <<"0">>, CONTENT), PyStr("Hello")),
    Item(MsgKey(LLM_OUTPUT_MESSAGES, <<"0">>, CONTENT), PyStr("Hi"))
>>

SetSpanAttribute ==
    /\ \E c \in 1..Len(SpanItems) : SetAttribute(SpanItems, c)
    /\ UNCHANGED <<pipeVars, bridgeVars, pc>>

Convert ==
    /\ result = NoResult
    /\ result' = [op |-> "convert_openinference_to_genai",
                  ret |-> convert_openinference_to_genai(attrs)]
    /\ UNCHANGED <<attrs, pipeVars, bridgeVars, pc>>

NextConvert == SetSpanAttribute \/ Convert
SpecConvert == InitMessages /\ [][NextConvert]_vars

Converted == result.op = "convert_openinference_to_genai"

\* C3: convert_openinference_to_genai never raises, for any attribute map (None
\* included): every malformed value is treated as absent.
C3_ConvertNeverRaises == Converted => ~Raised(result.ret)

\* the conversion of a span whose only attribute is input.value = "[1]" raised
C3_Witness ==
    /\ Converted /\ result.ret.exc = "AttributeError"
    /\ attrs = Attributes(<<Item(INPUT_VALUE, PyStr("[1]"))>>)

\* What holds of the code: the conversion returns whenever the span has no JSON
\* attribute that parses to a non-object, no tool response with a non-string content
\* and no token count that is not an integer.
WellFormed(a) ==
    a # None =>
        \A i \in 1..Len(a.items) :
            LET key == a.items[i].key
                value == a.items[i].value
            IN  /\ key = INPUT_VALUE /\ IsStr(value) /\ JsonLoads(value.s).ok =>
                      IsDict(JsonLoads(value.s).val)
                /\ MatchesTool(key) /\ IsStr(value) /\ JsonLoads(value.s).ok =>
                      IsDict(JsonLoads(value.s).val) \/ JsonLoads(value.s).val = None
                /\ MatchesBase(key, LLM_INPUT_MESSAGES) \/ MatchesBase(key, LLM_OUTPUT_MESSAGES) =>
                      IsStr(value)
                /\ key \in {LLM_TOKEN_COUNT_PROMPT, LLM_TOKEN_COUNT_COMPLETION} =>
                      value.k = "int"
ConvertReturnsOnWellFormed == Converted /\ WellFormed(attrs) => ~Raised(result.ret)

(***************************************************************************)
(* The span pipeline, its processor constructed: the host SDK starts and   *)
(* ends spans.                                                             *)
(***************************************************************************)
PipeReady ==
    /\ environ = [n \in {"INTROSPECTION_TOKEN", "INTROSPECTION_BASE_URL"} |-> Unset]
    /\ processor = [state |-> "ready"]
    /\ lifecycle = [s \in HostSpans |-> [state |-> "new"]]
    /\ downstream = <<>>
    /\ outcome = [op |-> "none"]

InitPipe == ConvIdle /\ PipeReady /\ BridgeInit /\ ThreadsIdle
NextPipe ==
    \/ \E s \in HostSpans : on_start(s)
    \/ \E s \in HostSpans : on_end(s)
SpecPipe == InitPipe /\ [][NextPipe]_vars

\* construction under every environment, then the first callbacks: the start of a
\* host span, the start and the end of a trace
InitConfig == ConvIdle /\ PipeInit /\ BridgeInit /\ ThreadsIdle
NextConfig ==
    \/ NewSpanProcessor
    \/ NewTracingProcessor
    \/ on_start("A")
    \/ \E trace \in TraceObjects : on_trace_start(trace)
    \/ \E trace \in TraceObjects : on_trace_end(trace)
SpecConfig == InitConfig /\ [][NextConfig]_vars

Ended(s) == lifecycle[s].state = "ended"

\* the calls of the downstream processor's on_end made for span s, in order
RECURSIVE ForwardedOf(_, _)
ForwardedOf(calls, s) ==
    IF calls = <<>> THEN <<>>
    ELSE (IF Head(calls).op = "on_end" /\ Head(calls).span.original = s
          THEN <<Head(calls).span>> ELSE <<>>) \o ForwardedOf(Tail(calls), s)

\* on_end(s) is the step that ends span s
EndsSpan(s) == lifecycle[s].state = "started" /\ lifecycle'[s].state = "ended"

\* C1: for every span whose sampled flag is false, on_end makes no call to the
\* downstream processor and computes no converted attributes, whatever the span's
\* instrumentation scope and attributes are.
C1_UnsampledDropped ==
    [][\A s \in HostSpans :
          EndsSpan(s) /\ ~lifecycle[s].sampled =>
              /\ downstream' = downstream
              /\ outcome'.conversions = 0
              /\ outcome'.raised = "none"]_vars

\* an unsampled span of an openinference scope, with attributes, has ended while a
\* sampled one was forwarded
C1_Witness ==
    /\ Ended("A") /\ ~lifecycle["A"].sampled
    /\ is_openinference_span(ScopeNameOf(lifecycle["A"]))
    /\ lifecycle["A"].attributes # None
    /\ HasKey(lifecycle["A"].attributes, LLM_MODEL_NAME)
    /\ ForwardedOf(downstream, "A") = <<>>
    /\ Ended("B") /\ ForwardedOf(downstream, "B") # <<>>

\* C2: for every sampled span, even one whose vendor attributes are malformed, on_end
\* reaches the terminal state forwarded: the downstream processor's on_end is called
\* exactly once for that span and no exception leaves on_end.
C2_SampledAlwaysForwarded ==
    /\ \A s \in HostSpans :
          Ended(s) /\ lifecycle[s].sampled => Len(ForwardedOf(downstream, s)) = 1
    /\ outcome.op = "on_end" /\ lifecycle[outcome.span].sampled => outcome.raised = "none"

\* a sampled span of an openinference scope whose input.value is "[1]" has ended and
\* nothing was forwarded for it
C2_Witness ==
    /\ Ended("A") /\ lifecycle["A"].sampled
    /\ lifecycle["A"].attributes = Attributes(<<Item(INPUT_VALUE, PyStr("[1]"))>>)
    /\ ForwardedOf(downstream, "A") = <<>>

\* C4: for every sampled span, on_end forwards a ConvertedReadableSpan built from
\* convert_openinference_to_genai of the span's attributes exactly when the span's
\* scope name starts with "openinference"; for every other sampled span, one with no
\* instrumentation scope included, it forwards the original span object unchanged.
C4_ConvertedIffOpenInference ==
    \A s \in HostSpans :
        Ended(s) /\ lifecycle[s].sampled =>
            ForwardedOf(downstream, s) =
                IF is_openinference_span(ScopeNameOf(lifecycle[s]))
                THEN <<ConvertedReadableSpan(
                          s, convert_openinference_to_genai(lifecycle[s].attributes).val)>>
                ELSE <<Original(s)>>

\* a sampled span of an openinference scope whose prompt token count is "abc" has
\* ended with no view forwarded, after one with well-formed attributes was converted
C4_Witness ==
    /\ Ended("A") /\ lifecycle["A"].sampled
    /\ Len(ForwardedOf(downstream, "A")) = 1
    /\ ForwardedOf(downstream, "A")[1].view = "converted"
    /\ Ended("B") /\ lifecycle["B"].sampled
    /\ lifecycle["B"].attributes = Attributes(<<Item(LLM_TOKEN_COUNT_PROMPT, PyStr("abc"))>>)
    /\ ForwardedOf(downstream, "B") = <<>>

\* What holds of the code: a sampled span is forwarded once, as the claim says,
\* unless the conversion of its attributes raises; then nothing is forwarded.
ForwardedUnlessConversionRaises ==
    \A s \in HostSpans :
        Ended(s) /\ lifecycle[s].sampled =>
            LET converts == is_openinference_span(ScopeNameOf(lifecycle[s]))
                converted == convert_openinference_to_genai(lifecycle[s].attributes)
            IN  ForwardedOf(downstream, s) =
                    IF converts /\ Raised(converted) THEN <<>>
                    ELSE IF converts THEN <<ConvertedReadableSpan(s, converted.val)>>
                    ELSE <<Original(s)>>

\* C5: constructing either processor with no custom span exporter and no token
\* (neither the argument nor INTROSPECTION_TOKEN) raises a configuration error during
\* construction, before any span or trace callback is processed; with a custom span
\* exporter construction succeeds without any token.
C5_MissingTokenIsConfigError ==
    /\ outcome.op = "__init__" =>
          /\ ( /\ outcome.advanced.span_exporter = None
               /\ ~Truthy(outcome.token)
               /\ ~Truthy(environ["INTROSPECTION_TOKEN"]) ) =>
                 outcome.raised \in {"ValueError: INTROSPECTION_TOKEN is not set",
                                     "ValueError: INTROSPECTION_BASE_URL is not set"}
          /\ outcome.advanced.span_exporter # None => outcome.raised = "none"
          /\ outcome.raised # "none" =>
                IF outcome.cls = "IntrospectionSpanProcessor"
                THEN processor.state = "failed" ELSE bridge.state = "failed"
    /\ processor.state # "ready" =>
          downstream = <<>> /\ \A s \in HostSpans : lifecycle[s].state = "new"
    /\ bridge.state # "ready" => spans = <<>> /\ handles = <<>> /\ exported = <<>>

\* with no token anywhere the span processor's construction failed, while the
\* bridge, given an exporter and no token, was constructed and bridged a trace
C5_Witness ==
    /\ environ["INTROSPECTION_TOKEN"] = Unset
    /\ processor.state = "failed"
    /\ bridge.state = "ready"
    /\ Len(exported) = 1

(***************************************************************************)
(* The trace bridge, constructed: the agents SDK calls the four callbacks,  *)
(* one at a time.                                                          *)
(***************************************************************************)
BridgeReady ==
    /\ bridge = [state |-> "ready"]
    /\ spans = <<>>
    /\ handles = <<>>
    /\ exported = <<>>
    /\ started = <<>>
    /\ lastcb = [op |-> "none", id |-> "none", raised |-> "none", scenario |-> "none"]

InitBridge == ConvIdle /\ PipeIdle /\ BridgeReady /\ ThreadsIdle
NextBridge ==
    \/ \E trace \in TraceObjects : on_trace_start(trace)
    \/ \E trace \in TraceObjects : on_trace_end(trace)
    \/ \E span \in RunSpans : on_span_start(span)
    \/ \E span \in RunSpans : on_span_end(span)
SpecBridge == InitBridge /\ [][NextBridge]_vars

Handles == 1..Len(handles)

\* every span started for a parent key that was started and not ended is a child of
\* exactly that handle, in its trace
ChildOfResolvedParent ==
    \A h \in Handles :
        handles[h].origin.expect # 0 =>
            /\ handles[h].parent = handles[h].origin.expect
            /\ handles[h].trace = handles[handles[h].origin.expect].trace

\* after the four callbacks of the scenario: two spans exported, S under T, and an
\* agent span S carrying the agent's name
ScenarioExportsTwo ==
    /\ Len(exported) = 2
    /\ handles[2].parent = 1
    /\ handles[2].origin.arg.span_data.type = "agent" =>
          /\ "gen_ai.agent.name" \in DOMAIN handles[2].attributes
          /\ handles[2].attributes["gen_ai.agent.name"] =
                handles[2].origin.arg.span_data.name

\* C6: on_span_start of a span whose parent id (or, with no parent id, whose trace id)
\* is the key of a handle currently in the spans map starts the new span as a child of
\* exactly that handle; the sequence on_trace_start(T), on_span_start(S with parent
\* absent or T's id), on_span_end(S), on_trace_end(T) exports exactly two spans, S's
\* parent is T's span context, and an agent span S carries gen_ai.agent.name equal to
\* the agent's name.
C6_ChildOfParentHandle ==
    /\ ChildOfResolvedParent
    /\ lastcb.scenario = "on_trace_end" => ScenarioExportsTwo

\* What holds of the code: the same, for every S whose on_span_end returns.
ScenarioExportsTwoUnlessRaised ==
    /\ ChildOfResolvedParent
    /\ lastcb.scenario = "on_trace_end" /\ handles[2].ended => ScenarioExportsTwo

\* the scenario with S a response span whose input is a string: on_span_end raised,
\* S was never ended and one span was exported
C6_Witness ==
    /\ lastcb.scenario = "on_trace_end"
    /\ Len(exported) = 1
    /\ ~handles[2].ended
    /\ handles[2].parent = 1

\* C7: the spans map contains exactly the ids that have received a start callback and
\* not yet the matching end callback, each with the handle its last start created;
\* after any sequence in which each start is matched by one end the map is empty.
C7_MapIsStartedNotEnded ==
    /\ DOMAIN spans = DOMAIN started
    /\ \A id \in DOMAIN started : spans[id] = started[id].handle
    /\ started = <<>> => spans = <<>>

\* a trace and a span under it were started and ended, a third span is still open
C7_Witness ==
    /\ Len(handles) = 3
    /\ Len(exported) = 2
    /\ DOMAIN spans = {"span_2"}
    /\ handles[2].origin.expect = 1

(***************************************************************************)
(* The trace bridge called from several threads.  A callback is a sequence *)
(* of steps of its thread; each access to self._spans (get, pop, item      *)
(* assignment) is one step, atomic as a single operation on a dict is.     *)
(* An id is started once, and its end callback comes after its start       *)
(* callback returned.                                                      *)
(***************************************************************************)
Threads == {"t1", "t2"}
Idle == [at |-> "idle"]

\* the ids a start callback was called for: the agents SDK never uses an id twice
ArgId(arg) == IF arg.k = "trace" THEN arg.trace_id ELSE arg.span_id
UsedIds == {ArgId(handles[h].origin.arg) : h \in 1..Len(handles)}

\* on_trace_start up to the assignment: tracer.start_span
on_trace_start_span(t, trace) ==
    /\ pc[t] = Idle
    /\ trace.trace_id \notin UsedIds
    /\ Len(handles) < MaxHandles
    /\ \E ambient \in AmbientContexts :
          handles' = Append(handles, StartSpan(trace.name, 0, ambient,
                                               [arg |-> trace, expect |-> 0]))
    /\ pc' = [pc EXCEPT ![t] = [at |-> "store", id |-> trace.trace_id, obj |-> trace,
                                handle |-> Len(handles) + 1]]
    /\ UNCHANGED <<spans, started, exported, lastcb, bridge, convVars, pipeVars>>

\* on_span_start up to the assignment: self._spans.get, then tracer.start_span
on_span_start_get(t, span) ==
    /\ pc[t] = Idle
    /\ span.span_id \notin UsedIds
    /\ Len(handles) < MaxHandles
    /\ \E ambient \in AmbientContexts :
          handles' = Append(handles,
                            StartSpan(SpanName(span.span_data), LookupParent(spans, span),
                                      ambient,
                                      [arg |-> span, expect |-> ExpectedParent(span)]))
    /\ pc' = [pc EXCEPT ![t] = [at |-> "store", id |-> span.span_id, obj |-> span,
                                handle |-> Len(handles) + 1]]
    /\ UNCHANGED <<spans, started, exported, lastcb, bridge, convVars, pipeVars>>

\* self._spans[id] = otel_span, of on_trace_start and of on_span_start
on_start_store(t) ==
    /\ pc[t].at = "store"
    /\ spans' = StoreHandle(spans, pc[t].id, pc[t].handle)
    /\ started' = SetItem(started, pc[t].id, [obj |-> pc[t].obj, handle |-> pc[t].handle])
    /\ pc' = [pc EXCEPT ![t] = Idle]
    /\ UNCHANGED <<handles, exported, lastcb, bridge, convVars, pipeVars>>

\* otel_span = self._spans.pop(id, None), of on_trace_end and of on_span_end
on_end_pop(t, id) ==
    /\ pc[t] = Idle
    /\ id \in DOMAIN started
    /\ spans' = PopHandle(spans, id)
    /\ started' = DelItem(started, id)
    /\ pc' = [pc EXCEPT ![t] = [at |-> "end", obj |-> started[id].obj,
                                handle |-> IF id \in DOMAIN spans THEN spans[id] ELSE 0]]
    /\ UNCHANGED <<handles, exported, lastcb, bridge, convVars, pipeVars>>

\* the rest of on_trace_end: `if otel_span: otel_span.end()`
on_trace_end_span(t) ==
    /\ pc[t].at = "end" /\ pc[t].obj.k = "trace"
    /\ IF pc[t].handle # 0
       THEN /\ handles' = [handles EXCEPT ![pc[t].handle].ended = TRUE]
            /\ exported' = IF handles[pc[t].handle].ended THEN exported
                           ELSE Append(exported, pc[t].handle)
       ELSE UNCHANGED <<handles, exported>>
    /\ lastcb' = [op |-> "on_trace_end", id |-> CallbackId(pc[t].obj), raised |-> "none", scenario |-> "other"]
    /\ pc' = [pc EXCEPT ![t] = Idle]
    /\ UNCHANGED <<spans, started, bridge, convVars, pipeVars>>

\* the rest of on_span_end: the attributes, then otel_span.end()
on_span_end_span(t) ==
    /\ pc[t].at = "end" /\ pc[t].obj.k = "span"
    /\ IF pc[t].handle # 0
       THEN \E r \in {EndSpan(handles[pc[t].handle], pc[t].obj.span_data)} :
                /\ handles' = [handles EXCEPT ![pc[t].handle] = r.handle]
                /\ exported' = IF r.raised = "none" /\ ~handles[pc[t].handle].ended
                               THEN Append(exported, pc[t].handle)
                               ELSE exported
                /\ lastcb' = [op |-> "on_span_end", id |-> CallbackId(pc[t].obj),
                             raised |-> r.raised, scenario |-> "other"]
       ELSE /\ UNCHANGED <<handles, exported>>
            /\ lastcb' = [op |-> "on_span_end", id |-> CallbackId(pc[t].obj),
                        raised |-> "none", scenario |-> "other"]
    /\ pc' = [pc EXCEPT ![t] = Idle]
    /\ UNCHANGED <<spans, started, bridge, convVars, pipeVars>>

InitThreads ==
    /\ ConvIdle /\ PipeIdle /\ BridgeReady
    /\ pc = [t \in Threads |-> Idle]
NextThreads ==
    \E t \in Threads :
        \/ \E trace \in TraceObjects \ {None} : on_trace_start_span(t, trace)
        \/ \E span \in RunSpans \ {None} : on_span_start_get(t, span)
        \/ on_start_store(t)
        \/ \E id \in TraceIds \cup SpanIds : on_end_pop(t, id)
        \/ on_trace_end_span(t)
        \/ on_span_end_span(t)
SpecThreads == InitThreads /\ [][NextThreads]_vars

StrFieldValues == {None, PyStr("x"), JsonDumps(<<>>), PyInt(5)}
IntFieldValues == {None, PyInt(0), PyInt(7), PyStr("12"), PyStr("abc"), PyFloat(3, 0),
                   PyFloat(1, 5), PyBool(TRUE)}

\* the keyword arguments of a construction: request_model, response_id and the token
\* counts take any of the values above, the other fields a string or None
FieldValues ==
    {[request_model |-> m, system |-> y, tool_definitions |-> y, input_messages |-> z,
      output_messages |-> z, system_instructions |-> None, response_id |-> r,
      input_tokens |-> i, output_tokens |-> o] :
        m \in StrFieldValues, r \in StrFieldValues, y \in {None, PyStr("x")},
        z \in {None, JsonDumps(<<>>)}, i \in IntFieldValues, o \in IntFieldValues}

\* x = GenAiAttributes(**fields)
Construct ==
    /\ result = NoResult
    /\ \E f \in FieldValues :
          result' = [op |-> "GenAiAttributes", fields |-> f, ret |-> GenAiAttributes(f)]
    /\ UNCHANGED <<attrs, pipeVars, bridgeVars, pc>>

\* GenAiAttributes(**x.to_attributes()).to_attributes()
Reserialise ==
    /\ result.op = "GenAiAttributes"
    /\ ~Raised(result.ret)
    /\ \E first \in {to_attributes(result.ret.val)} :
       \E again \in {GenAiAttributes(Kwargs(first))} :
          result' = [op |-> "to_attributes", x |-> result.ret.val, first |-> first,
                     second |-> IF Raised(again) THEN again
                                ELSE Ok(to_attributes(again.val))]
    /\ UNCHANGED <<attrs, pipeVars, bridgeVars, pc>>

InitAttributes == ConvIdle /\ PipeIdle /\ BridgeInit /\ ThreadsIdle
NextAttributes == Construct \/ Reserialise
SpecAttributes == InitAttributes /\ [][NextAttributes]_vars

\* C11: re-serialisation is idempotent: for every GenAiAttributes x built from the
\* nine fields, GenAiAttributes(**x.to_attributes()).to_attributes() returns a map
\* equal to x.to_attributes().
C11_ReserialisationIdempotent ==
    result.op = "to_attributes" => result.second = Ok(result.first)

\* an x whose prompt token count was given as the string "12", serialised twice
C11_Witness ==
    /\ result.op = "to_attributes"
    /\ result.x.input_tokens = PyInt(12)
    /\ result.x.request_model = PyStr("x")
    /\ result.x.system = None
    /\ DOMAIN result.first = {"gen_ai.request.model", "gen_ai.usage.input_tokens"}
    /\ ~Raised(result.second)

(***************************************************************************)
(* converters/openai.py called on the items of a Responses API request and *)
(* response.                                                               *)
(***************************************************************************)
Dict2(k1, v1, k2, v2) == PyDict((k1 :> v1) @@ (k2 :> v2))
Dict3(k1, v1, k2, v2, k3, v3) == PyDict((k1 :> v1) @@ (k2 :> v2) @@ (k3 :> v3))

FunctionCall ==
    PyDict(("type" :> PyStr("function_call")) @@ ("call_id" :> PyStr("call_1"))
           @@ ("name" :> PyStr("get_weather")) @@ ("arguments" :> PyStr("{}")))

\* the items a request's input list may hold; the last is no dict
InputItems == <<
    UserHello,
    Dict3("type", PyStr("message"), "role", PyStr("system"), "content", PyStr("Sys")),
    Dict2("role", PyStr("developer"),
          "content", PyList(<<Dict2("type", PyStr("input_text"), "text", PyStr("hi"))>>)),
    Dict2("role", PyStr("user"),
          "content", PyList(<<PyStr("plain"),
                              Dict2("type", PyStr("output_text"), "text", PyStr("Hi"))>>)),
    FunctionCall,
    Dict2("type", PyStr("function_call"), "call_id", PyStr("call_2")),
    Dict3("type", PyStr("function_call_output"), "call_id", PyStr("call_1"),
          "output", PyStr("sunny")),
    Dict2("type", PyStr("reasoning"), "content", PyStr("thinking")),
    Dict2("role", PyStr("user"), "content", PyStr("")),
    PyStr("oops")
>>

\* the items a response's output list may hold
OutputItems == <<
    OutputText,
    Dict2("type", PyStr("message"), "content", PyStr("Hi")),
    Dict2("type", PyStr("message"),
          "content", PyList(<<Dict2("type", PyStr("refusal"), "refusal", PyStr("no"))>>)),
    FunctionCall,
    Dict2("type", PyStr("function_call"), "call_id", PyStr("call_2")),
    Dict2("type", PyStr("reasoning"), "content", PyList(<<>>)),
    PyInt(5)
>>

MaxItems == 2

\* the lists of at most MaxItems of the given items
Lists(items) ==
    UNION {{PyList([i \in 1..n |-> items[pick[i]]]) : pick \in [1..n -> 1..Len(items)]} :
              n \in 0..MaxItems}

Instructions == {None, PyStr(""), PyStr("Be helpful"), PyStr("x")}

ConvertInputs ==
    /\ result = NoResult
    /\ \E inputs \in {None} \cup Lists(InputItems), instructions \in Instructions :
          result' = [op |-> "convert_responses_inputs_to_semconv", inputs |-> inputs,
                     instructions |-> instructions,
                     ret |-> convert_responses_inputs_to_semconv(inputs, instructions)]
    /\ UNCHANGED <<attrs, pipeVars, bridgeVars, pc>>

ConvertOutputs ==
    /\ result = NoResult
    /\ \E outputs \in Lists(OutputItems) :
          result' = [op |-> "convert_responses_outputs_to_semconv", outputs |-> outputs,
                     ret |-> convert_responses_outputs_to_semconv(outputs)]
    /\ UNCHANGED <<attrs, pipeVars, bridgeVars, pc>>

InitResponses == ConvIdle /\ PipeIdle /\ BridgeInit /\ ThreadsIdle
NextResponses == ConvertInputs \/ ConvertOutputs
SpecResponses == InitResponses /\ [][NextResponses]_vars

ConvertedInputs == result.op = "convert_responses_inputs_to_semconv"

\* C12: externally supplied instructions are never folded into the message list: for
\* every input list and every non-empty instructions string the call ends as it does
\* with instructions None, the system_instructions it returns are exactly one text
\* part with that string, and the messages it returns are those returned for the
\* same inputs with instructions None.
C12_InstructionsNotFolded ==
    ConvertedInputs /\ IsStr(result.instructions) /\ result.instructions.s # "" =>
        LET without == convert_responses_inputs_to_semconv(result.inputs, None)
        IN  /\ Raised(result.ret) <=> Raised(without)
            /\ ~Raised(result.ret) =>
                  /\ result.ret.val.system_instructions = <<TextPart(result.instructions)>>
                  /\ result.ret.val.input_messages = without.val.input_messages

\* [{role: user, content: Hello}] with "Be helpful": one user message with one text
\* part "Hello", one system instruction "Be helpful"
C12_Witness ==
    /\ ConvertedInputs
    /\ result.inputs = PyList(<<UserHello>>)
    /\ result.instructions = PyStr("Be helpful")
    /\ result.ret = Ok([input_messages |->
                            <<Message(PyStr("user"), <<TextPart(PyStr("Hello"))>>)>>,
                        system_instructions |-> <<TextPart(PyStr("Be helpful"))>>])

(***************************************************************************)
(* extract_tool_definitions on the attributes of a span with tools.        *)
(***************************************************************************)
TOOL_G_JSON == "{\"name\":\"g\",\"description\":\"e\"}"

\* the (key, value) pairs the instrumentation may set for the tools of a span; they
\* are set in this order, so index 10 comes before 1 and 1 before 0
ToolItems == <<
    Item(JsonSchemaKey(10), PyStr(TOOL_G_JSON)),
    Item(JsonSchemaKey(1), PyStr(TOOL_G_JSON)),
    Item(JsonSchemaKey(1), PyStr("{bad")),
    Item(JsonSchemaKey(0), PyStr(FUNCTION_TOOL_JSON)),
    Item(JsonSchemaKey(0), PyStr("{bad")),
    Item(JsonSchemaKey(0), PyStr("[1]")),
    Item(JsonSchemaKey(0), PyStr("null")),
    Item(JsonSchemaKey(0), PyInt(5)),
    Item(LLM_TOOLS \o <<<<"0", "2">>>> \o TOOL_JSON_SCHEMA, PyStr(FUNCTION_TOOL_JSON)),
    Item(JsonSchemaKey(3) \o <<Name("extra")>>, PyStr(FUNCTION_TOOL_JSON)),
    Item(LLM_TOOLS \o <<Name("x")>> \o TOOL_JSON_SCHEMA, PyStr(FUNCTION_TOOL_JSON)),
    Item(LLM_MODEL_NAME, PyStr("gpt-4"))
>>

SetToolAttribute ==
    /\ \E c \in 1..Len(ToolItems) : SetAttribute(ToolItems, c)
    /\ UNCHANGED <<pipeVars, bridgeVars, pc>>

ExtractToolDefinitions ==
    /\ result = NoResult
    /\ result' = [op |-> "extract_tool_definitions", ret |-> extract_tool_definitions(attrs)]
    /\ UNCHANGED <<attrs, pipeVars, bridgeVars, pc>>

NextTools == SetToolAttribute \/ ExtractToolDefinitions
SpecTools == InitMessages /\ [][NextTools]_vars

ExtractedTools == result.op = "extract_tool_definitions"

\* the attributes llm.tools.<digits>.tool.json_schema whose value satisfies P
SchemaItems(a, P(_)) ==
    IF a = None THEN {}
    ELSE {i \in 1..Len(a.items) :
            /\ Len(a.items[i].key) = Len(LLM_TOOLS) + 1 + Len(TOOL_JSON_SCHEMA)
            /\ MatchesTool(a.items[i].key)
            /\ P(a.items[i])}
IndexOf(item) == ParseInt(item.key[Len(LLM_TOOLS) + 1])

Parsable(item) == IsStr(item.value) /\ JsonLoads(item.value.s).ok
ParsesToObject(item) == Parsable(item) /\ IsDict(JsonLoads(item.value.s).val)
CanonicalKey(item) == item.key = JsonSchemaKey(IndexOf(item))

\* the name a schema gives its tool: of the nested function for a schema in the
\* {"type": "function", "function": {...}} form, of the schema itself otherwise
SchemaName(item) ==
    LET schema == JsonLoads(item.value.s).val
    IN  IF ~IsDict(schema) THEN None
        ELSE IF Get(schema, "type") = PyStr("function") /\ IsDict(Get(schema, "function"))
        THEN Get(Get(schema, "function"), "name")
        ELSE Get(schema, "name")

\* `tools` holds one definition for each of the chosen schema attributes, in ascending
\* order of their indices
DefinitionsOf(tools, a, chosen) ==
    LET order == Sorted({IndexOf(a.items[i]) : i \in chosen})
    IN  /\ Len(tools) = Len(order)
        /\ \A n \in 1..Len(order) :
              \E i \in chosen :
                  /\ IndexOf(a.items[i]) = order[n]
                  /\ tools[n].name = SchemaName(a.items[i])

\* C13: extract_tool_definitions skips an index whose schema value is invalid JSON
\* without raising and without affecting the others: it returns exactly the
\* definitions of the indices whose schema is a parsable JSON string, in ascending
\* order of index.
C13_InvalidSchemaSkipped ==
    ExtractedTools =>
        /\ ~Raised(result.ret)
        /\ DefinitionsOf(result.ret.val, attrs, SchemaItems(attrs, Parsable))

\* index 1 has an invalid schema, indices 10 and 0 valid ones, set in that order: the
\* call returned the definitions of 0 and 10
C13_Witness ==
    /\ ExtractedTools
    /\ attrs = Attributes(<<ToolItems[1], ToolItems[3], ToolItems[4]>>)
    /\ ~Raised(result.ret)
    /\ Len(result.ret.val) = 2
    /\ result.ret.val[1].name = PyStr("f")
    /\ result.ret.val[2].name = PyStr("g")

\* What holds of the code: the call raises exactly when a schema attribute with a
\* canonical key parses to JSON that is neither an object nor null, and what it
\* returns are the definitions of the canonical keys whose schema parses to an object.
ParsesToOther(item) ==
    CanonicalKey(item) /\ Parsable(item) /\ ~ParsesToObject(item)
        /\ JsonLoads(item.value.s).val # None
CanonicalObject(item) == CanonicalKey(item) /\ ParsesToObject(item)
ReturnedDefinitionsOfObjects ==
    ExtractedTools =>
        /\ Raised(result.ret) <=> SchemaItems(attrs, ParsesToOther) # {}
        /\ ~Raised(result.ret) =>
              DefinitionsOf(result.ret.val, attrs, SchemaItems(attrs, CanonicalObject))

(***************************************************************************)
(* ConvertedReadableSpan: the view on_end builds on an ended span, its     *)
(* attributes property and the properties it delegates.                    *)
(***************************************************************************)
\* an attribute key as the list of its segments
KeyOf(alias) ==
    CASE alias = "gen_ai.request.model" -> <<Name("gen_ai"), Name("request"), Name("model")>>
      [] alias = "gen_ai.system" -> <<Name("gen_ai"), Name("system")>>
      [] alias = "gen_ai.tool.definitions" -> <<Name("gen_ai"), Name("tool"), Name("definitions")>>
      [] alias = "gen_ai.input.messages" -> <<Name("gen_ai"), Name("input"), Name("messages")>>
      [] alias = "gen_ai.output.messages" -> <<Name("gen_ai"), Name("output"), Name("messages")>>
      [] alias = "gen_ai.system_instructions" -> <<Name("gen_ai"), Name("system_instructions")>>
      [] alias = "gen_ai.response.id" -> GEN_AI_RESPONSE_ID
      [] alias = "gen_ai.usage.input_tokens" ->
            <<Name("gen_ai"), Name("usage"), Name("input_tokens")>>
      [] alias = "gen_ai.usage.output_tokens" ->
            <<Name("gen_ai"), Name("usage"), Name("output_tokens")>>

\* a view that keeps every attribute of the original
ReservedNever(key) == FALSE

\* key.startswith(("llm.", "input.", "output."))
Reserved(key) ==
    Len(key) >= 2 /\ key[1] \in {Name("llm"), Name("input"), Name("output")}

\* the loop of the attributes property: the original's items that are not reserved
RECURSIVE CopyItems(_, _)
CopyItems(merged, items) ==
    IF items = <<>> THEN merged
    ELSE CopyItems(IF Reserved(Head(items).key) THEN merged
                   ELSE SetItem(merged, Head(items).key, Head(items).value),
                   Tail(items))

\* merged.update(m) for the map to_attributes returned
Update(merged, m) ==
    [key \in DOMAIN merged \cup {KeyOf(alias) : alias \in DOMAIN m} |->
        IF \E alias \in DOMAIN m : KeyOf(alias) = key
        THEN m[CHOOSE alias \in DOMAIN m : KeyOf(alias) = key]
        ELSE merged[key]]

\* a property that works in the original's own attribute dict: the reserved keys are
\* deleted from the original
AttributesInPlace(original, converted_attrs) ==
    LET items == IF original = None THEN <<>> ELSE original.items
        NotReserved(item) == ~Reserved(item.key)
    IN  [ret |-> Update(CopyItems(<<>>, items), to_attributes(converted_attrs)),
         original |-> IF original = None THEN None
                      ELSE Attributes(SelectSeq(items, NotReserved))]

\* ConvertedReadableSpan.attributes: the dict it returns, and the original's
\* attributes afterwards (merged is a dict of its own)
ViewAttributes(original, converted_attrs) ==
    LET copied == IF original # None /\ Len(original.items) > 0
                  THEN CopyItems(<<>>, original.items)
                  ELSE <<>>
    IN  [ret |-> Update(copied, to_attributes(converted_attrs)),
         original |-> original]

\* the properties the view delegates: `return self._original.<property>`
Delegated == {"name", "context", "parent", "resource", "instrumentation_scope",
              "status", "start_time", "end_time", "events", "links", "kind"}
Delegate(original, property) == original[property]

\* attributes an ended span may carry besides those of SpanAttributeSamples: keys
\* outside the reserved prefixes, keys that only resemble them, canonical keys the
\* conversion sets as well
ViewAttributeSamples == SpanAttributeSamples \cup {
    Attributes(<<Item(<<Name("http"), Name("method")>>, PyStr("GET")),
                 Item(LLM_MODEL_NAME, PyStr("gpt-4")),
                 Item(<<Name("llm")>>, PyStr("bare")),
                 Item(<<Name("llmx"), Name("y")>>, PyInt(1))>>),
    Attributes(<<Item(KeyOf("gen_ai.system"), PyStr("mine")),
                 Item(LLM_SYSTEM, PyStr("openai")),
                 Item(<<Name("inputs"), Name("x")>>, PyStr("kept")),
                 Item(INPUT_VALUE, PyStr("{bad"))>>),
    Attributes(<<Item(KeyOf("gen_ai.system"), PyStr("mine")),
                 Item(KeyOf("gen_ai.request.model"), PyStr("old")),
                 Item(LLM_MODEL_NAME, PyStr("gpt-4")),
                 Item(OUTPUT_VALUE, PyStr("{\"id\":\"resp_1\"}"))>>),
    Attributes(<<Item(GEN_AI_RESPONSE_ID, PyInt(7)),
                 Item(OUTPUT_VALUE, PyStr("{\"id\":\"resp_1\"}")),
                 Item(<<Name("output")>>, PyStr("bare")),
                 Item(LLM_TOKEN_COUNT_PROMPT, PyStr("12"))>>)}

\* ended spans of an openinference scope
EndedSpans ==
    {[state |-> "ended", sampled |-> TRUE, attributes |-> a, name |-> name,
      context |-> "ctx_1", parent |-> parent, resource |-> "resource",
      instrumentation_scope |-> InstrumentationScope(OPENINFERENCE), status |-> status,
      start_time |-> 1, end_time |-> 2, events |-> events, links |-> <<>>,
      kind |-> "CLIENT"] :
        a \in ViewAttributeSamples, name \in {"ChatCompletion", "llm"},
        parent \in {None, PyStr("ctx_0")}, status \in {"UNSET", "ERROR"},
        events \in {<<>>, <<"exception">>}}

\* span = ConvertedReadableSpan(span, converted_attrs), as on_end builds it
Wrap ==
    /\ result = NoResult
    /\ \E converted_attrs \in {convert_openinference_to_genai(lifecycle["A"].attributes)} :
          /\ ~Raised(converted_attrs)
          /\ result' = [op |-> "__init__",
                        view |-> ConvertedReadableSpan("A", converted_attrs.val)]
    /\ UNCHANGED <<attrs, pipeVars, bridgeVars, pc>>

\* view.attributes
ReadAttributes ==
    /\ result.op # "none"
    /\ \E r \in {ViewAttributes(lifecycle[result.view.original].attributes,
                                 result.view.converted_attrs)} :
          /\ result' = [op |-> "attributes", view |-> result.view, ret |-> r.ret]
          /\ lifecycle' = [lifecycle EXCEPT ![result.view.original].attributes = r.original]
    /\ UNCHANGED <<attrs, environ, processor, downstream, outcome, bridgeVars, pc>>

\* view.name, view.context, ...
ReadProperty ==
    /\ result.op # "none"
    /\ \E property \in Delegated :
          result' = [op |-> property, view |-> result.view,
                     ret |-> Delegate(lifecycle[result.view.original], property)]
    /\ UNCHANGED <<attrs, pipeVars, bridgeVars, pc>>

InitView ==
    /\ ConvIdle /\ BridgeInit /\ ThreadsIdle
    /\ environ = [n \in {"INTROSPECTION_TOKEN", "INTROSPECTION_BASE_URL"} |-> Unset]
    /\ processor = [state |-> "ready"]
    /\ lifecycle \in [{"A"} -> EndedSpans]
    /\ downstream = <<>>
    /\ outcome = [op |-> "none"]
NextView == Wrap \/ ReadAttributes \/ ReadProperty
SpecView == InitView /\ [][NextView]_vars

ReadsAttributes == result.op = "attributes"
OriginalItems ==
    IF lifecycle["A"].attributes = None THEN <<>> ELSE lifecycle["A"].attributes.items
OriginalKeys == {OriginalItems[i].key : i \in 1..Len(OriginalItems)}
StartsWithReserved(key) ==
    \E prefix \in {"llm", "input", "output"} : Len(key) >= 2 /\ key[1] = <<prefix>>
CanonicalOf(field) == KeyOf(Alias(field))

\* C14: the view's attributes are the original's attributes without the keys that
\* start with "llm.", "input." or "output.", overlaid with the canonical GenAI
\* attributes that are not None: a canonical key has the canonical value, also when
\* the original has the key, and every other kept key has the original's value.
C14_ViewAttributesMerged ==
    ReadsAttributes =>
        LET canonical == {field \in FieldNames : result.view.converted_attrs[field] # None}
            kept == {key \in OriginalKeys : ~StartsWithReserved(key)}
        IN  /\ DOMAIN result.ret = kept \cup {CanonicalOf(field) : field \in canonical}
            /\ \A field \in canonical :
                  result.ret[CanonicalOf(field)] = result.view.converted_attrs[field]
            /\ \A key \in kept \ {CanonicalOf(field) : field \in canonical} :
                  result.ret[key] = AttrGet(lifecycle["A"].attributes, key)

\* the original has gen_ai.system = "mine", gen_ai.request.model = "old" and
\* llm.model_name = "gpt-4": the view has the canonical model, the original's
\* gen_ai.system, and no llm.* or output.* key
C14_Witness ==
    /\ ReadsAttributes
    /\ lifecycle["A"].attributes # None
    /\ HasKey(lifecycle["A"].attributes, LLM_MODEL_NAME)
    /\ AttrGet(lifecycle["A"].attributes, KeyOf("gen_ai.request.model")) = PyStr("old")
    /\ DOMAIN result.ret = {KeyOf("gen_ai.request.model"), KeyOf("gen_ai.system"),
                            GEN_AI_RESPONSE_ID}
    /\ result.ret[KeyOf("gen_ai.request.model")] = PyStr("gpt-4")
    /\ result.ret[KeyOf("gen_ai.system")] = PyStr("mine")
    /\ result.ret[GEN_AI_RESPONSE_ID] = PyStr("resp_1")

ReadsProperty == result.op \in Delegated

\* C15: building and reading a ConvertedReadableSpan never changes the wrapped span
\* (its attributes and every other property are after each step what they were
\* before), and the view's name, context, parent, start and end time, status, events
\* and links (and resource, scope and kind) are the original's.
C15_ViewLeavesOriginal ==
    /\ [][lifecycle' = lifecycle]_vars
    /\ [](ReadsProperty => result.ret = lifecycle[result.view.original][result.op])

\* the status of a view on a span with llm.* attributes and status ERROR was read
C15_Witness ==
    /\ result.op = "status"
    /\ result.ret = "ERROR"
    /\ lifecycle["A"].attributes # None
    /\ HasKey(lifecycle["A"].attributes, LLM_MODEL_NAME)
    /\ HasKey(lifecycle["A"].attributes, LLM_TOKEN_COUNT_PROMPT)

(***************************************************************************)
(* The message lists of the three converters against the canonical schema  *)
(* of schemas/genai.py.                                                    *)
(***************************************************************************)
Roles == {PyStr("system"), PyStr("user"), PyStr("assistant"), PyStr("tool")}
PartTypes == {"text", "tool_call", "tool_call_response"}

\* a part as _extract_messages builds it, against TextPart, ToolCallRequestPart and
\* ToolCallResponsePart
ValidPart(part) ==
    /\ part.type \in PartTypes
    /\ part.type = "text" => IsStr(part.content)
    /\ part.type = "tool_call" => IsStr(part.name)

\* a part of the Responses converters, a dict, against the same
ValidDictPart(part) ==
    /\ IsDict(part)
    /\ "type" \in DOMAIN part.f
    /\ IsStr(part.f["type"])
    /\ part.f["type"].s \in PartTypes
    /\ part.f["type"].s = "text" => IsStr(Get(part, "content"))
    /\ part.f["type"].s = "tool_call" => IsStr(Get(part, "name"))
    /\ part.f["type"].s = "tool_call_response" => "response" \in DOMAIN part.f

\* InputMessage / OutputMessage
ValidMessage(message) ==
    /\ message.role \in Roles
    /\ \A i \in 1..Len(message.parts) : ValidPart(message.parts[i])
ValidDictMessage(message) ==
    /\ Get(message, "role") \in Roles
    /\ \A i \in 1..Len(message.f["parts"].items) : ValidDictPart(message.f["parts"].items[i])

\* the message list the last call returned, none when it raised
ReturnedMessages ==
    IF result.op = "none" \/ Raised(result.ret) THEN <<>>
    ELSE IF result.op = "convert_responses_inputs_to_semconv"
    THEN result.ret.val.input_messages
    ELSE result.ret.val

NextSchema == NextMessages \/ (attrs = None /\ NextResponses)
SpecSchema == InitMessages /\ [][NextSchema]_vars

\* C16: every message list produced by convert_responses_inputs_to_semconv,
\* convert_responses_outputs_to_semconv and _extract_messages conforms to the
\* canonical schema, for every input: each role is one of system, user, assistant,
\* tool, and each part is a text part with string content, a tool_call part with a
\* string name or a tool_call_response part; no other source item appears as a part.
C16_MessagesConformToSchema ==
    \A n \in 1..Len(ReturnedMessages) :
        IF Extracted THEN ValidMessage(ReturnedMessages[n])
        ELSE ValidDictMessage(ReturnedMessages[n])

\* the input converter returned a message of role developer whose only part is the
\* source's input_text item
C16_Witness ==
    /\ ConvertedInputs
    /\ ~Raised(result.ret)
    /\ Len(result.ret.val.input_messages) = 1
    /\ result.ret.val.input_messages[1] =
          Message(PyStr("developer"),
                  <<Dict2("type", PyStr("input_text"), "text", PyStr("hi"))>>)

\* What holds of the code: every part of _extract_messages carries one of the three
\* tags, and a part of the Responses converters that does not is a dict item of a
\* source content list, passed through as it came.
SourceItems ==
    IF result.op = "convert_responses_inputs_to_semconv"
    THEN IF result.inputs = None THEN <<>> ELSE result.inputs.items
    ELSE result.outputs.items
PassedThrough(part) ==
    \E i \in 1..Len(SourceItems) :
        /\ IsDict(SourceItems[i])
        /\ IsList(Get(SourceItems[i], "content"))
        /\ \E j \in 1..Len(Get(SourceItems[i], "content").items) :
              Get(SourceItems[i], "content").items[j] = part
TaggedUnlessPassedThrough ==
    \A n \in 1..Len(ReturnedMessages) :
        IF Extracted
        THEN \A i \in 1..Len(ReturnedMessages[n].parts) :
                ReturnedMessages[n].parts[i].type \in PartTypes
        ELSE \A i \in 1..Len(ReturnedMessages[n].f["parts"].items) :
                LET part == ReturnedMessages[n].f["parts"].items[i]
                IN  \/ PassedThrough(part)
                    \/ /\ "type" \in DOMAIN part.f
                       /\ part.f["type"] \in {PyStr(t) : t \in PartTypes}

(***************************************************************************)
(* The processor's lifecycle calls: the host SDK starts and ends a span,   *)
(* flushes and shuts the processor down, in any order.                     *)
(***************************************************************************)
NextLifecycle ==
    \/ on_start("A")
    \/ on_end("A")
    \/ shutdown
    \/ force_flush
SpecLifecycle == InitPipe /\ [][NextLifecycle]_vars

\* the last call made to the downstream processor
LastCall == downstream[Len(downstream)]

\* C17: IntrospectionSpanProcessor.shutdown calls shutdown on every downstream
\* processor (the processor has one) and never raises: an exception raised by the
\* downstream processor's shutdown is caught.
C17_ShutdownNeverRaises ==
    /\ [][outcome'.op = "shutdown" =>
            /\ Len(downstream') = Len(downstream) + 1
            /\ SubSeq(downstream', 1, Len(downstream)) = downstream
            /\ downstream'[Len(downstream')].op = "shutdown"]_vars
    /\ [](outcome.op = "shutdown" => outcome.raised = "none")

\* the downstream processor's shutdown raised RuntimeError and the processor's
\* shutdown returned, after a span was started
C17_Witness ==
    /\ outcome.op = "shutdown"
    /\ outcome.raised = "none"
    /\ LastCall = [op |-> "shutdown", raised |-> "RuntimeError"]
    /\ lifecycle["A"].state = "started"

\* C18: IntrospectionSpanProcessor.force_flush calls force_flush on every downstream
\* processor (the processor has one), with its timeout, and returns true if and only
\* if the downstream force_flush returned true.
C18_FlushReturnsDownstream ==
    /\ [][outcome'.op = "force_flush" =>
            /\ Len(downstream') = Len(downstream) + 1
            /\ SubSeq(downstream', 1, Len(downstream)) = downstream
            /\ downstream'[Len(downstream')].op = "force_flush"
            /\ downstream'[Len(downstream')].timeout_millis = outcome'.timeout_millis]_vars
    /\ [](outcome.op = "force_flush" =>
            (outcome.ret = Ok(TRUE) <=> LastCall.ret = Ok(TRUE)))

\* the downstream processor's force_flush returned false within a timeout of 5 ms
\* and so did the processor's, after an earlier flush that returned true
C18_Witness ==
    /\ outcome.op = "force_flush"
    /\ outcome.ret = Ok(FALSE)
    /\ LastCall = [op |-> "force_flush", timeout_millis |-> 5, ret |-> Ok(FALSE)]
    /\ Len(downstream) > 1
    /\ downstream[Len(downstream) - 1].op = "force_flush"
    /\ downstream[Len(downstream) - 1].ret = Ok(TRUE)

\* the on_start calls made to the downstream processor for span s
StartCalls(s) ==
    {i \in 1..Len(downstream) :
        downstream[i].op = "on_start" /\ downstream[i].span = Original(s)}

\* C19: on_start forwards every started span to the downstream processor exactly
\* once, whatever the span's sampled flag and instrumentation scope are; starts are
\* never filtered.
C19_StartsForwardedOnce ==
    \A s \in HostSpans :
        Cardinality(StartCalls(s)) = IF lifecycle[s].state = "new" THEN 0 ELSE 1

\* an unsampled span without a scope and a sampled span of an openinference scope
\* were started, and each was forwarded once
C19_Witness ==
    /\ lifecycle["A"].state = "started" /\ ~lifecycle["A"].sampled
    /\ lifecycle["A"].scope = None
    /\ lifecycle["B"].state = "started" /\ lifecycle["B"].sampled
    /\ lifecycle["B"].scope = InstrumentationScope(OPENINFERENCE)
    /\ Cardinality(StartCalls("A")) = 1 /\ Cardinality(StartCalls("B")) = 1

(***************************************************************************)
(* The attribute map of a conversion: SpecConvert, with to_attributes      *)
(* applied to what convert_openinference_to_genai returned.                *)
(***************************************************************************)
Returned == Converted /\ ~Raised(result.ret)
Absent(key) == attrs = None \/ ~HasKey(attrs, key)

\* the field is None exactly when the list extracted for it is empty
NoneIffEmpty(value, list) ==
    IF Len(list) = 0 THEN value = None ELSE value = JsonDumps(list)

\* C20: GenAiAttributes.to_attributes never contains a key whose value is null: a
\* field appears in the map, under its alias, if and only if it is non-null; and
\* convert_openinference_to_genai leaves a field null whenever no data was found for
\* it, including when the extracted message, tool-definition or system-instruction
\* list is empty.
C20_NoNullInAttributeMap ==
    Returned =>
        LET g == result.ret.val
            map == to_attributes(g)
            input == extract_input_messages(attrs).val
        IN  /\ \A key \in DOMAIN map : map[key] # None
            /\ \A field \in FieldNames :
                  /\ Alias(field) \in DOMAIN map <=> g[field] # None
                  /\ g[field] # None => map[Alias(field)] = g[field]
            /\ NoneIffEmpty(g.tool_definitions, extract_tool_definitions(attrs).val)
            /\ NoneIffEmpty(g.input_messages, input.input_messages)
            /\ NoneIffEmpty(g.system_instructions, input.system_instructions)
            /\ NoneIffEmpty(g.output_messages, extract_output_messages(attrs).val)
            /\ Absent(LLM_MODEL_NAME) => g.request_model = None
            /\ Absent(LLM_SYSTEM) => g.system = None
            /\ Absent(GEN_AI_RESPONSE_ID) /\ Absent(OUTPUT_VALUE) => g.response_id = None
            /\ Absent(LLM_TOKEN_COUNT_PROMPT) => g.input_tokens = None
            /\ Absent(LLM_TOKEN_COUNT_COMPLETION) => g.output_tokens = None

\* a span with a model name, a system message and a tool schema that is no JSON was
\* converted: no tool definition and no input message was found, and the map has the
\* model and the system instructions only
C20_Witness ==
    /\ Returned
    /\ attrs = Attributes(<<Item(LLM_MODEL_NAME, PyStr("gpt-4")),
                            Item(INPUT_VALUE, PyStr("{\"instructions\":\"Be helpful\"}")),
                            Item(JsonSchemaKey(0), PyStr("{bad"))>>)
    /\ result.ret.val.tool_definitions = None
    /\ result.ret.val.input_messages = None
    /\ DOMAIN to_attributes(result.ret.val) =
          {"gen_ai.request.model", "gen_ai.system_instructions"}

(***************************************************************************)
(* The parts of a message that is no tool response (SpecMessages)          *)
(***************************************************************************)
OtherGroups == DOMAIN Groups \ ToolGroups

\* the contents entries of a group whose type is "text", and its tool calls
TextEntries(group) ==
    {n \in DOMAIN group["_contents"] :
        /\ "type" \in DOMAIN group["_contents"][n]
        /\ group["_contents"][n]["type"] = PyStr("text")}
CallEntries(group) == DOMAIN group["_tool_calls"]

\* the flat content field was given and is not empty
HasFlatContent(group) ==
    "_content_text" \in DOMAIN group /\ Truthy(group["_content_text"])

FieldOr(entry, name, default) == IF name \in DOMAIN entry THEN entry[name] ELSE default

\* parts is: the text entries in ascending n, then the flat content if there was no
\* text entry, then the tool calls in ascending n
PartsInOrder(parts, group) ==
    LET texts == Sorted(TextEntries(group))
        calls == Sorted(CallEntries(group))
        flat == IF HasFlatContent(group) /\ texts = <<>> THEN 1 ELSE 0
    IN  /\ Len(parts) = Len(texts) + flat + Len(calls)
        /\ \A k \in 1..Len(texts) :
              parts[k] = [type |-> "text",
                          content |-> FieldOr(group["_contents"][texts[k]], "text", PyStr(""))]
        /\ flat = 1 => parts[1] = [type |-> "text", content |-> group["_content_text"]]
        /\ \A k \in 1..Len(calls) :
              LET tc == group["_tool_calls"][calls[k]]
              IN  parts[Len(texts) + flat + k] =
                    [type |-> "tool_call", id |-> FieldOr(tc, "id", None),
                     name |-> FieldOr(tc, "name", None),
                     arguments |-> FieldOr(tc, "arguments", None)]

\* C21: for every message group that is not a tool response, the parts of the
\* reconstructed message are, in this order: one text part per contents.<n> entry
\* whose type is "text", in ascending n; then one text part from the flat content
\* field only if that field is non-empty and no text part was produced from contents;
\* then one tool_call part per tool_calls.<n> group, in ascending n.
C21_PartsInOrder ==
    Extracted /\ ~Raised(result.ret) =>
        \A idx \in OtherGroups :
            PartsInOrder(result.ret.val[PositionOf(idx)].parts, Groups[idx])

\* a message with a text entry in contents, a flat content and the tool calls 10 and
\* 2 was rebuilt: the text entry, then tool call 2, then tool call 10
C21_Witness ==
    /\ Extracted /\ ~Raised(result.ret)
    /\ OtherGroups = {0}
    /\ TextEntries(Groups[0]) = {0}
    /\ HasFlatContent(Groups[0])
    /\ CallEntries(Groups[0]) = {2, 10}
    /\ Len(result.ret.val[1].parts) = 3
    /\ result.ret.val[1].parts[2].name = PyStr("f")
    /\ result.ret.val[1].parts[3].id = PyStr("call_10")

(***************************************************************************)
(* extract_response_id on the attributes of a finished span                *)
(***************************************************************************)
GENERATIONS_FLAT_JSON ==
    "{\"generations\":[{\"message\":{\"kwargs\":{\"response_metadata\":{\"id\":\"lc_3\"}}}}]}"
ID_AND_GENERATIONS_JSON ==
    "{\"id\":\"resp_2\",\"generations\":[{\"message\":{\"kwargs\":{\"response_metadata\":{\"id\":\"lc_3\"}}}}]}"
GENERATIONS_MIXED_JSON ==
    "{\"generations\":[[5,{\"message\":{\"kwargs\":{\"response_metadata\":{\"id\":\"\"}}}}],{\"message\":{\"kwargs\":{\"response_metadata\":{\"id\":\"lc_4\"}}}}]}"

ResponseIdItems == <<
    Item(LLM_MODEL_NAME, PyStr("gpt-4")),
    Item(GEN_AI_RESPONSE_ID, PyStr("resp_0")),
    Item(GEN_AI_RESPONSE_ID, PyStr("")),
    Item(GEN_AI_RESPONSE_ID, PyInt(7)),
    Item(OUTPUT_VALUE, PyStr("{\"id\":\"resp_1\"}")),
    Item(OUTPUT_VALUE, PyStr("{\"id\":\"\"}")),
    Item(OUTPUT_VALUE, PyStr("{\"id\":7}")),
    Item(OUTPUT_VALUE, PyStr(GENERATIONS_JSON)),
    Item(OUTPUT_VALUE, PyStr(GENERATIONS_FLAT_JSON)),
    Item(OUTPUT_VALUE, PyStr(GENERATIONS_MIXED_JSON)),
    Item(OUTPUT_VALUE, PyStr(ID_AND_GENERATIONS_JSON)),
    Item(OUTPUT_VALUE, PyStr("{\"generations\":5}")),
    Item(OUTPUT_VALUE, PyStr("{}")),
    Item(OUTPUT_VALUE, PyStr("{bad")),
    Item(OUTPUT_VALUE, PyStr("[1]")),
    Item(OUTPUT_VALUE, PyStr("null")),
    Item(OUTPUT_VALUE, PyStr("")),
    Item(OUTPUT_VALUE, PyInt(5)),
    Item(INPUT_VALUE, PyStr("{\"id\":\"resp_1\"}"))
>>

SetResponseIdAttribute ==
    /\ \E c \in 1..Len(ResponseIdItems) : SetAttribute(ResponseIdItems, c)
    /\ UNCHANGED <<pipeVars, bridgeVars, pc>>

\* extract_response_id(attrs) on the finished span
ExtractResponseId ==
    /\ result = NoResult
    /\ result' = [op |-> "extract_response_id", ret |-> extract_response_id(attrs)]
    /\ UNCHANGED <<attrs, pipeVars, bridgeVars, pc>>

NextResponseId == SetResponseIdAttribute \/ ExtractResponseId
SpecResponseId == InitMessages /\ [][NextResponseId]_vars

NonEmptyStr(v) == IsStr(v) /\ v.s # ""

\* the object output.value parses to, None when it is no string, no JSON or no object
OutputObject ==
    IF attrs = None \/ ~IsStr(AttrGet(attrs, OUTPUT_VALUE)) THEN None
    ELSE LET parsed == JsonLoads(AttrGet(attrs, OUTPUT_VALUE).s)
         IN  IF parsed.ok /\ IsDict(parsed.val) THEN parsed.val ELSE None

\* the generations items in the order of the scan: the items of an inner list one by
\* one, an item that is no list as itself
RECURSIVE Scanned(_)
Scanned(gens) ==
    IF gens = <<>> THEN <<>>
    ELSE (IF IsList(Head(gens)) THEN Head(gens).items ELSE <<Head(gens)>>)
         \o Scanned(Tail(gens))

\* item.message.kwargs.response_metadata.id, None when a step is missing or no object
NestedId(item) ==
    LET Step(v, name) == IF IsDict(v) THEN Get(v, name) ELSE None
    IN  Step(Step(Step(Step(item, "message"), "kwargs"), "response_metadata"), "id")

\* the ids a generations payload offers, in scan order
GenerationIds ==
    IF OutputObject = None \/ ~IsList(Get(OutputObject, "generations")) THEN <<>>
    ELSE LET items == Scanned(Get(OutputObject, "generations").items)
         IN  SelectSeq([n \in 1..Len(items) |-> NestedId(items[n])], NonEmptyStr)

\* C22: extract_response_id resolves the response id in a fixed order: a non-empty
\* string under gen_ai.response.id wins; otherwise a non-empty string top-level id of
\* the JSON object parsed from output.value; otherwise the first non-empty string at
\* message.kwargs.response_metadata.id when scanning the generations items in order;
\* otherwise null.  Unparsable JSON gives null and never raises.
C22_ResponseIdOrder ==
    result.op = "extract_response_id" =>
        result.ret =
            IF attrs # None /\ NonEmptyStr(AttrGet(attrs, GEN_AI_RESPONSE_ID))
            THEN AttrGet(attrs, GEN_AI_RESPONSE_ID)
            ELSE IF OutputObject # None /\ NonEmptyStr(Get(OutputObject, "id"))
            THEN Get(OutputObject, "id")
            ELSE IF GenerationIds # <<>> THEN GenerationIds[1]
            ELSE None

\* the canonical key holds resp_0 and output.value an object with the id resp_2 and
\* generations: the canonical key won
C22_Witness ==
    /\ result.op = "extract_response_id"
    /\ attrs # None
    /\ AttrGet(attrs, GEN_AI_RESPONSE_ID) = PyStr("resp_0")
    /\ AttrGet(attrs, OUTPUT_VALUE) = PyStr(ID_AND_GENERATIONS_JSON)
    /\ result.ret = PyStr("resp_0")

(***************************************************************************)
(* extract_input_messages on the attributes of a finished span: the input  *)
(* messages and the system instructions.                                   *)
(***************************************************************************)
InstructionItems == <<
    Item(MsgKey(LLM_INPUT_MESSAGES, <<"0">>, ROLE), PyStr("system")),
    Item(MsgKey(LLM_INPUT_MESSAGES, <<"0">>, ROLE), PyStr("user")),
    Item(MsgKey(LLM_INPUT_MESSAGES, <<"0", "0">>, ROLE), PyStr("system")),
    Item(MsgKey(LLM_INPUT_MESSAGES, <<"0">>, CONTENT), PyStr("Hello")),
    Item(MsgKey(LLM_INPUT_MESSAGES, <<"1">>, ROLE), PyStr("system")),
    Item(MsgKey(LLM_INPUT_MESSAGES, <<"1">>, ROLE), PyStr("user")),
    Item(INPUT_VALUE, PyStr("{\"instructions\":\"Be helpful\"}")),
    Item(INPUT_VALUE, PyStr("{\"instructions\":\"\"}")),
    Item(INPUT_VALUE, PyStr("{\"instructions\":5}")),
    Item(INPUT_VALUE, PyStr("{}")),
    Item(INPUT_VALUE, PyStr("[1]")),
    Item(INPUT_VALUE, PyStr("null")),
    Item(INPUT_VALUE, PyStr("{bad")),
    Item(INPUT_VALUE, PyStr("")),
    Item(INPUT_VALUE, PyInt(5)),
    Item(OUTPUT_VALUE, PyStr("{\"instructions\":\"Be helpful\"}"))
>>

SetInstructionAttribute ==
    /\ \E c \in 1..Len(InstructionItems) : SetAttribute(InstructionItems, c)
    /\ UNCHANGED <<pipeVars, bridgeVars, pc>>

\* extract_input_messages(attrs) on the finished span
ExtractInputMessages ==
    /\ result = NoResult
    /\ result' = [op |-> "extract_input_messages", ret |-> extract_input_messages(attrs)]
    /\ UNCHANGED <<attrs, pipeVars, bridgeVars, pc>>

NextInstructions == SetInstructionAttribute \/ ExtractInputMessages
SpecInstructions == InitMessages /\ [][NextInstructions]_vars

ExtractedInputs == result.op = "extract_input_messages"

\* the input message groups of the span
InputGroups == IF attrs = None THEN <<>>
               ELSE GroupMessages(attrs.items, LLM_INPUT_MESSAGES, Len(attrs.items))

\* the input message at index 0 has role "system"
FirstIsSystem == 0 \in DOMAIN InputGroups /\ MessageRole(InputGroups[0]) = PyStr("system")

\* the object input.value parses to, None when it is no string, no JSON or no object
InputObject ==
    IF attrs = None \/ ~IsStr(AttrGet(attrs, INPUT_VALUE)) THEN None
    ELSE LET parsed == JsonLoads(AttrGet(attrs, INPUT_VALUE).s)
         IN  IF parsed.ok /\ IsDict(parsed.val) THEN parsed.val ELSE None

\* input.value is a JSON string whose object has a non-empty instructions string
HasInstructions == InputObject # None /\ NonEmptyStr(Get(InputObject, "instructions"))

\* the input messages are all there: one per index, a system message included
NotReduced(input_messages) ==
    /\ Len(input_messages) = Cardinality(DOMAIN InputGroups)
    /\ \A idx \in DOMAIN InputGroups :
          \E n \in 1..Len(input_messages) :
              input_messages[n].role = MessageRole(InputGroups[idx])

\* C23: extract_system_instructions returns an empty list whenever the input message
\* at index 0 has role "system", even if input.value carries an instructions field;
\* otherwise exactly one text part holding the instructions when input.value is a
\* JSON string whose object has a non-empty instructions string, and an empty list in
\* every other case.  The input messages returned alongside are never reduced: a
\* system-role message stays in input_messages.
C23_InstructionsOnlyAsFallback ==
    ExtractedInputs =>
        /\ ~Raised(result.ret)
        /\ result.ret.val.system_instructions =
              IF ~FirstIsSystem /\ HasInstructions
              THEN <<[type |-> "text", content |-> Get(InputObject, "instructions")]>>
              ELSE <<>>
        /\ NotReduced(result.ret.val.input_messages)

\* the extraction on a span whose only attribute is input.value = "[1]" raised
C23_Witness ==
    /\ ExtractedInputs
    /\ attrs = Attributes(<<Item(INPUT_VALUE, PyStr("[1]"))>>)
    /\ Raised(result.ret) /\ result.ret.exc = "AttributeError"

\* What holds of the code.  The test for the system role reads the one key
\* llm.input_messages.0.message.role; with that key not "system", a JSON input.value
\* that parses to no object raises, and any truthy instructions value, a string or
\* not, becomes the content of the one part.  The input messages are never reduced.
FirstKeyIsSystem == attrs # None /\ AttrGet(attrs, FirstMsgRoleKey) = PyStr("system")
InputParsesToOther ==
    /\ attrs # None
    /\ NonEmptyStr(AttrGet(attrs, INPUT_VALUE))
    /\ JsonLoads(AttrGet(attrs, INPUT_VALUE).s).ok
    /\ InputObject = None
InstructionsAsTheCodeGivesThem ==
    ExtractedInputs =>
        /\ Raised(result.ret) <=> ~FirstKeyIsSystem /\ InputParsesToOther
        /\ ~Raised(result.ret) =>
              /\ result.ret.val.system_instructions =
                    IF /\ ~FirstKeyIsSystem
                       /\ InputObject # None
                       /\ AttrGet(attrs, INPUT_VALUE).s # ""
                       /\ Truthy(Get(InputObject, "instructions"))
                    THEN <<[type |-> "text", content |-> Get(InputObject, "instructions")]>>
                    ELSE <<>>
              /\ NotReduced(result.ret.val.input_messages)

(***************************************************************************)
(* The token counts of a conversion (SpecConvert)                          *)
(***************************************************************************)
TokenKeys == {LLM_TOKEN_COUNT_PROMPT, LLM_TOKEN_COUNT_COMPLETION}
IsTokenItem(item) == item.key \in TokenKeys

\* the span's attributes with the token counts left out
WithoutTokens(a) ==
    IF a = None THEN None
    ELSE Attributes(SelectSeq(a.items, LAMBDA item : ~IsTokenItem(item)))

IsInt(v) == v.k = "int"
AbsentOrInt(v) == v = None \/ IsInt(v)

\* the attribute under key is there and its value is no integer
NotAnInteger(key) == attrs # None /\ HasKey(attrs, key) /\ ~IsInt(AttrGet(attrs, key))

\* C24: in the result of convert_openinference_to_genai, input_tokens and
\* output_tokens are each either absent or an integer for every attribute map: a
\* token-count attribute whose value is not an integer is treated as absent, never
\* appears in the canonical attributes and never makes the conversion fail.
C24_TokensAbsentOrInteger ==
    Converted =>
        /\ Raised(result.ret) => Raised(convert_openinference_to_genai(WithoutTokens(attrs)))
        /\ ~Raised(result.ret) =>
              /\ AbsentOrInt(result.ret.val.input_tokens)
              /\ AbsentOrInt(result.ret.val.output_tokens)
              /\ NotAnInteger(LLM_TOKEN_COUNT_PROMPT) => result.ret.val.input_tokens = None
              /\ NotAnInteger(LLM_TOKEN_COUNT_COMPLETION) =>
                    result.ret.val.output_tokens = None

\* the conversion of a span whose only attribute is the prompt token count "abc"
\* raised pydantic's ValidationError
C24_Witness ==
    /\ Converted
    /\ attrs = Attributes(<<Item(LLM_TOKEN_COUNT_PROMPT, PyStr("abc"))>>)
    /\ Raised(result.ret) /\ result.ret.exc = "ValidationError"

\* What holds of the code: a conversion that returns has token counts that are None
\* or integers, a count given as a numeric string, a whole float or a bool being
\* coerced to an integer and not dropped.
ReturnedTokensAbsentOrInteger ==
    Returned =>
        /\ AbsentOrInt(result.ret.val.input_tokens)
        /\ AbsentOrInt(result.ret.val.output_tokens)
        /\ Absent(LLM_TOKEN_COUNT_PROMPT) <=> result.ret.val.input_tokens = None
        /\ Absent(LLM_TOKEN_COUNT_COMPLETION) <=> result.ret.val.output_tokens = None

(***************************************************************************)
(* The trace bridge on spans of every kind: the agents SDK starts and ends *)
(* span_1, again and again, each time with one of the span data above.     *)
(***************************************************************************)
KindSpans == {None} \cup {AgentSpan("span_1", "trace_1", None, d) : d \in SpanDatas}

NextKinds ==
    \/ \E span \in KindSpans : on_span_start(span)
    \/ \E span \in KindSpans : on_span_end(span)
SpecKinds == InitBridge /\ [][NextKinds]_vars

RAW == "openai_agents.span_data"
KnownKinds == {"agent", "function", "response", "generation", "handoff"}

\* the span data a handle was started for
DataOf(h) == handles[h].origin.arg.span_data

\* the step is an on_span_end for id, tracked before it
EndsTracked(id) == id \in DOMAIN spans /\ id \notin DOMAIN spans'

\* after the step the handle is ended and exported and carries the raw payload, and
\* nothing else when its kind is none of the five
StampedAndEnded(h) ==
    /\ handles'[h].ended
    /\ \E n \in 1..Len(exported') : exported'[n] = h
    /\ RAW \in DOMAIN handles'[h].attributes
    /\ handles'[h].attributes[RAW] = JsonDumps(Export(DataOf(h)))
    /\ DataOf(h).type \notin KnownKinds => DOMAIN handles'[h].attributes = {RAW}

\* C25: every span ended through on_span_end for a tracked span id carries the
\* raw-payload attribute openai_agents.span_data, whatever its kind; a span whose kind
\* is none of agent, function, response, generation, handoff carries no other
\* attribute set by the bridge, and is still ended and exported.
C25_RawPayloadAlwaysStamped ==
    [][\A id \in SpanIds : EndsTracked(id) => StampedAndEnded(spans[id])]_vars

\* on_span_end of a response span whose input is a string raised: the span was taken
\* from the map, carries no raw payload and was not ended
C25_Witness ==
    /\ Len(handles) = 1
    /\ DataOf(1) = ResponseSpanData(BareResponse, PyStr("Hello"))
    /\ spans = <<>>
    /\ lastcb.raised = "AttributeError"
    /\ RAW \notin DOMAIN handles[1].attributes
    /\ ~handles[1].ended

\* What holds of the code: the same for every on_span_end that returns, and every
\* span the bridge ended carries the raw payload.
RawPayloadStampedUnlessRaised ==
    [][\A id \in SpanIds :
          EndsTracked(id) /\ lastcb'.raised = "none" => StampedAndEnded(spans[id])]_vars
EndedSpansCarryRawPayload ==
    \A h \in Handles : handles[h].ended => RAW \in DOMAIN handles[h].attributes

(***************************************************************************)
(* The values the bridge sets (SpecKinds)                                  *)
(***************************************************************************)
Optional(key, value) == [key |-> key, value |-> value]

\* the optional payload fields of a span data, each with the attribute it feeds; a
\* token count of a response span is given as None when it is zero
OptionalFields(d) ==
    CASE d.type = "agent" ->
            {Optional("gen_ai.tool.definitions", d.tools),
             Optional("gen_ai.agent.handoffs", d.handoffs),
             Optional("gen_ai.agent.output_type", d.output_type)}
      [] d.type = "function" ->
            {Optional("gen_ai.tool.input", d.input), Optional("gen_ai.tool.output", d.output)}
      [] d.type = "handoff" ->
            {Optional("gen_ai.handoff.from_agent", d.from_agent),
             Optional("gen_ai.handoff.to_agent", d.to_agent)}
      [] d.type = "generation" ->
            {Optional("gen_ai.request.model", d.model),
             Optional("gen_ai.input.messages", d.input),
             Optional("gen_ai.output.messages", d.output)}
            \cup (IF IsDict(d.usage)
                  THEN {Optional("gen_ai.usage.input_tokens", Get(d.usage, "input_tokens")),
                        Optional("gen_ai.usage.output_tokens", Get(d.usage, "output_tokens"))}
                  ELSE {Optional("gen_ai.usage.input_tokens", None),
                        Optional("gen_ai.usage.output_tokens", None)})
      [] d.type = "response" ->
            IF d.response = None
            THEN {Optional(key, None) :
                    key \in {"gen_ai.system_instructions", "gen_ai.request.model",
                             "gen_ai.response.id", "gen_ai.usage.input_tokens",
                             "gen_ai.usage.output_tokens"}}
            ELSE {Optional("gen_ai.system_instructions", d.response.instructions),
                  Optional("gen_ai.request.model", d.response.model),
                  Optional("gen_ai.response.id", d.response.id),
                  Optional("gen_ai.usage.input_tokens",
                           IF d.response.usage = None \/ d.response.usage.input_tokens = 0
                           THEN None ELSE PyInt(d.response.usage.input_tokens)),
                  Optional("gen_ai.usage.output_tokens",
                           IF d.response.usage = None \/ d.response.usage.output_tokens = 0
                           THEN None ELSE PyInt(d.response.usage.output_tokens))}
      [] OTHER -> {}

\* absent or null, or empty
NullOrEmpty(v) == v = None \/ ~Truthy(v)

\* after the step, no attribute of the handle is fed by a null or empty field
OptionalUnset(h) ==
    \A field \in OptionalFields(DataOf(h)) :
        field.value = None \/ (field.key \notin {"gen_ai.usage.input_tokens",
                                                  "gen_ai.usage.output_tokens"}
                               /\ ~Truthy(field.value)) =>
            field.key \notin DOMAIN handles'[h].attributes

\* no set_attribute call of the extractor passes None
NoNullCall(d) ==
    \A i \in 1..Len(SpanCalls(d).val) : SpanCalls(d).val[i].value # None

\* C26: the trace bridge never sets an attribute to a null value: for every span
\* kind, an optional payload field that is absent, null or empty (and, for response
\* spans, a token count equal to zero) leaves its attribute unset; this includes a
\* generation span whose usage map has the key input_tokens or output_tokens with a
\* null value.
C26_NeverSetsNull ==
    [][\A id \in SpanIds :
          EndsTracked(id) =>
              /\ NoNullCall(DataOf(spans[id]))
              /\ OptionalUnset(spans[id])]_vars

\* a generation span whose usage is {"input_tokens": None} was ended: the bridge
\* called set_attribute("gen_ai.usage.input_tokens", None)
C26_Witness ==
    /\ Len(handles) = 1
    /\ handles[1].ended
    /\ DataOf(1) = GenerationSpanData(None, PyDict("input_tokens" :> None), None, None)
    /\ \E i \in 1..Len(SpanCalls(DataOf(1)).val) :
          SpanCalls(DataOf(1)).val[i] = Call("gen_ai.usage.input_tokens", None)
    /\ DOMAIN handles[1].attributes = {RAW}

\* What holds of the code: the OpenTelemetry SDK drops a None it is given, so no
\* attribute of a span ever holds None and every attribute fed by a null or empty
\* field stays unset.
NoAttributeHoldsNull ==
    /\ [][\A id \in SpanIds : EndsTracked(id) => OptionalUnset(spans[id])]_vars
    /\ [](\A h \in Handles : \A key \in DOMAIN handles[h].attributes :
              handles[h].attributes[key] # None)

(***************************************************************************)
(* Spans whose parent id is no key of the map (SpecBridge)                 *)
(***************************************************************************)
\* handle h was started for a span whose parent id is set and was no key of the map
UnresolvedParent(h) ==
    /\ handles[h].origin.arg.k = "span"
    /\ Truthy(handles[h].origin.arg.parent_id)
    /\ handles[h].origin.expect = 0

\* C27: on_span_start of a span whose parent id is set but is not a key of the spans
\* map starts the span as a root span (no parent, new trace), even when the span's
\* trace id is a key of the map; the fallback to the trace id is used only when the
\* span has no parent id.
C27_UnresolvedParentIsRoot ==
    \A h \in Handles :
        UnresolvedParent(h) => handles[h].parent = 0 /\ handles[h].trace = h

\* trace_1 is in the map and span_1, whose parent id span_2 is not, was started while
\* the thread's current context held a span of the host: span_1 is its child
C27_Witness ==
    /\ Len(handles) = 2
    /\ DOMAIN spans = {"trace_1", "span_1"}
    /\ UnresolvedParent(2)
    /\ handles[2].origin.arg.parent_id = PyStr("span_2")
    /\ handles[2].parent = -1
    /\ handles[1].parent = 0

\* What holds of the code: such a span is never put under the trace's span nor under
\* any span of the bridge, and it is a root span whenever the current context of the
\* calling thread holds no span.
UnresolvedParentNeverUnderTrace ==
    \A h \in Handles :
        UnresolvedParent(h) =>
            /\ handles[h].parent \in AmbientContexts
            /\ handles[h].parent = 0 => handles[h].trace = h

(***************************************************************************)
(* End callbacks for ids that are not in the map (SpecBridge)              *)
(***************************************************************************)
EndCallbacks == {"on_trace_end", "on_span_end"}

\* the step is an end callback for an id that is no key of the map
EndsUntracked ==
    /\ lastcb'.op \in EndCallbacks
    /\ lastcb'.id # "none"
    /\ lastcb'.id \notin DOMAIN spans

\* C28: ending an id that is not in the spans map is a no-op for both on_trace_end
\* and on_span_end: the map is unchanged, no span is ended or exported, no attribute
\* is set and no exception is raised; this also holds for a second end of an id that
\* was already ended.
C28_UntrackedEndIsNoOp ==
    [][EndsUntracked =>
          /\ spans' = spans
          /\ handles' = handles
          /\ exported' = exported
          /\ lastcb'.raised = "none"]_vars

\* the trace is open and the last callback was an on_span_end of span_1, which was never
\* started: the map still holds the trace alone and nothing was ended or exported
C28_Witness ==
    /\ Len(handles) = 1
    /\ handles[1].origin.arg.k = "trace"
    /\ ~handles[1].ended
    /\ handles[1].attributes = <<>>
    /\ exported = <<>>
    /\ DOMAIN spans = {"trace_1"}
    /\ lastcb.op = "on_span_end" /\ lastcb.id = "span_1"
    /\ lastcb.raised = "none"

(***************************************************************************)
(* extract_output_messages and extract_input_messages on the attributes of *)
(* one finished span.                                                      *)
(***************************************************************************)
\* extract_output_messages(attrs) on the finished span
ExtractOutputMessages ==
    /\ result = NoResult
    /\ result' = [op |-> "extract_output_messages", ret |-> extract_output_messages(attrs)]
    /\ UNCHANGED <<attrs, pipeVars, bridgeVars, pc>>

NextFinishReason == SetMessageAttribute \/ ExtractInputMessages \/ ExtractOutputMessages
SpecFinishReason == InitMessages /\ [][NextFinishReason]_vars

ExtractedOutputs == result.op = "extract_output_messages"

\* "finish_reason" in msg
HasFinishReason(msg) == "finish_reason" \in DOMAIN msg

\* C29: every message extract_output_messages returns has the key finish_reason, null
\* since the flattened attributes carry none, and no message extract_input_messages
\* returns has the key
C29_FinishReasonOnOutputsOnly ==
    /\ (ExtractedOutputs /\ ~Raised(result.ret)) =>
          \A i \in 1..Len(result.ret.val) :
              HasFinishReason(result.ret.val[i]) /\ result.ret.val[i].finish_reason = None
    /\ (ExtractedInputs /\ ~Raised(result.ret)) =>
          \A i \in 1..Len(result.ret.val.input_messages) :
              ~HasFinishReason(result.ret.val.input_messages[i])

\* the span holds an input message and the output messages 0 and 1, and the two output
\* messages came back, each with finish_reason null
C29_Witness ==
    /\ ExtractedOutputs
    /\ ~Raised(result.ret)
    /\ attrs # None
    /\ HasKey(attrs, MsgKey(LLM_INPUT_MESSAGES, <<"0">>, ROLE))
    /\ Len(result.ret.val) = 2
    /\ result.ret.val[1].role = PyStr("assistant")
    /\ result.ret.val[2].parts = <<[type |-> "text", content |-> PyStr("Hello")]>>
    /\ \A i \in 1..2 : HasFinishReason(result.ret.val[i])

\* the input messages of a span came back, two of them
InputsReturned ==
    /\ ExtractedInputs
    /\ ~Raised(result.ret)
    /\ Len(result.ret.val.input_messages) >= 2

(***************************************************************************)
(* Handles taken from the spans map (SpecBridge, SpecKinds)                *)
(***************************************************************************)
\* C30: every span handle that on_span_end or on_trace_end removes from the spans map
\* is ended by that callback, also when the per-kind attribute extraction or the
\* serialisation of the raw payload fails, so that a started span whose end callback
\* arrives is always exported
C30_PoppedHandlesAreEnded ==
    [][\A id \in SpanIds \cup TraceIds :
          EndsTracked(id) =>
              /\ handles'[spans[id]].ended
              /\ \E n \in 1..Len(exported') : exported'[n] = spans[id]]_vars

\* the trace is open, and on_span_end of the response span span_2, started under it with
\* a string as input, raised: its handle left the map, was not ended and not exported
C30_Witness ==
    /\ Len(handles) = 2
    /\ DOMAIN spans = {"trace_1"}
    /\ handles[1].origin.arg.k = "trace"
    /\ handles[2].origin.arg.k = "span"
    /\ handles[2].origin.arg.span_id = "span_2"
    /\ handles[2].parent = 1
    /\ lastcb.op = "on_span_end" /\ lastcb.id = "span_2"
    /\ lastcb.raised = "AttributeError"
    /\ ~handles[2].ended
    /\ exported = <<>>

\* What holds of the code: a callback that returns has ended and exported the handle it
\* took from the map, and on_trace_end always does.
PoppedHandlesEndedUnlessRaised ==
    [][\A id \in SpanIds \cup TraceIds :
          EndsTracked(id) /\ lastcb'.raised = "none" =>
              /\ handles'[spans[id]].ended
              /\ \E n \in 1..Len(exported') : exported'[n] = spans[id]]_vars
TraceHandlesAlwaysEnded ==
    [][\A id \in TraceIds : EndsTracked(id) => handles'[spans[id]].ended]_vars

\* SpecKinds: on_span_end of a custom span whose data json.dumps cannot encode raised
\* TypeError, the handle out of the map and not ended
UnserialisablePayloadNotEnded ==
    /\ Len(handles) = 1
    /\ DataOf(1) = CustomSpanData(PyStr("my_step"), PyDict("client" :> Opaque))
    /\ spans = <<>>
    /\ lastcb.raised = "TypeError"
    /\ ~handles[1].ended
    /\ exported = <<>>

====
